---- MODULE Spec2Model ----
(***************************************************************************)
(* Verification model of skill-deck's materialization core:                *)
(*   core/skill.rs        sanitize_name                                    *)
(*   core/agents.rs       AgentType::config, is_universal                  *)
(*   core/paths.rs        canonical_skills_dir                             *)
(*   core/installer.rs    install_skill_for_agent and helpers              *)
(*   core/uninstaller.rs  remove_skill, remove_path                        *)
(*   core/skill_lock.rs   the per-user lock store                          *)
(*   core/local_lock.rs   the per-project lock store                       *)
(*   core/discovery.rs    discover_skills                                  *)
(*                                                                         *)
(* Strings that the code inspects character by character (skill names) are *)
(* sequences of one-character strings.  The filesystem is a function from  *)
(* paths to nodes; a path is <<base, skills dir, entry name>>.             *)
(***************************************************************************)
EXTENDS Integers, Sequences, FiniteSets, TLC

VARIABLES
    fs,          \* filesystem: path -> node
    lock_file,   \* ~/.agents/.skill-lock.json
    local_file,  \* <project>/skills-lock.json
    legacy_file, \* <project>/.agents/.skill-lock.json
    now,         \* wall clock read by chrono::Utc::now()
    last,        \* the last call: operation, arguments, returned value
    pre,         \* the state the last call started from
    sz,          \* sanitize_name under test: [input, once, twice]
    dz,          \* discover_skills run: tree, options, position, result
    pure         \* a pure function under test: [stage, input, result]

vars ==
    <<fs, lock_file, local_file, legacy_file, now, last, pre, sz, dz, pure>>

\* Option<T>: None is the empty tuple, Some(x) the one-element tuple
None == <<>>
Some(x) == <<x>>
unwrap(o) == o[1]

Min(S) == CHOOSE x \in S : \A y \in S : x <= y
Max(S) == CHOOSE x \in S : \A y \in S : x >= y

(***************************************************************************)
(* core/skill.rs : sanitize_name                                           *)
(***************************************************************************)
UpperLetters == <<"A","B","C","D","E","F","G","H","I","J","K","L","M",
                  "N","O","P","Q","R","S","T","U","V","W","X","Y","Z">>
LowerLetters == <<"a","b","c","d","e","f","g","h","i","j","k","l","m",
                  "n","o","p","q","r","s","t","u","v","w","x","y","z">>
Digits == {"0","1","2","3","4","5","6","7","8","9"}

to_lowercase(c) ==
    IF \E i \in 1..26 : UpperLetters[i] = c
    THEN LowerLetters[CHOOSE i \in 1..26 : UpperLetters[i] = c]
    ELSE c

is_ascii_lowercase(c) == \E i \in 1..26 : LowerLetters[i] = c
is_ascii_digit(c) == c \in Digits

\* the .map(|c| ...) closure of sanitize_name
sanitize_char(c) ==
    LET l == to_lowercase(c)
    IN IF is_ascii_lowercase(l) \/ is_ascii_digit(l) \/ l = "." \/ l = "_"
       THEN l ELSE "-"

\* the loop that merges runs of '-': when the loop reaches s[i], prev_hyphen
\* says whether s[i-1] is '-', so s[i] is pushed unless both are '-'.
\* merge_hyphens(s, lo, hi) is what the loop pushes for s[lo..hi].
RECURSIVE merge_hyphens(_, _, _)
merge_hyphens(s, lo, hi) ==
    IF lo > hi THEN <<>>
    ELSE IF lo = hi
    THEN LET prev_hyphen == lo > 1 /\ s[lo - 1] = "-"
         IN IF s[lo] = "-" /\ prev_hyphen THEN <<>> ELSE <<s[lo]>>
    ELSE LET mid == (lo + hi) \div 2
         IN merge_hyphens(s, lo, mid) \o merge_hyphens(s, mid + 1, hi)

\* str::trim_matches(|c| c == '.' || c == '-')
trim_matches(s) ==
    LET keep == {i \in 1..Len(s) : s[i] \notin {".", "-"}}
    IN IF keep = {} THEN <<>> ELSE SubSeq(s, Min(keep), Max(keep))

NameCutOff == 255

take(s, n) == IF Len(s) <= n THEN s ELSE SubSeq(s, 1, n)

UnnamedSkill == <<"u","n","n","a","m","e","d","-","s","k","i","l","l">>

sanitize_name(name) ==
    LET sanitized == [i \in 1..Len(name) |-> sanitize_char(name[i])]
        result    == merge_hyphens(sanitized, 1, Len(name))
        trimmed   == trim_matches(result)
    IN IF trimmed = <<>> THEN UnnamedSkill ELSE take(trimmed, NameCutOff)

(***************************************************************************)
(* core/agents.rs : the registry (a sample that keeps its structure: two   *)
(* agents on the shared ".agents/skills" convention, two agents with a     *)
(* project directory of their own; every agent has a global directory)     *)
(***************************************************************************)
AgentType == {"amp", "codex", "cursor", "claude-code"}

\* directories are <<base, relative part>>; the bases are the PATHS fields
config(agent) ==
    CASE agent = "amp" ->
           [name |-> "amp", skills_dir |-> ".agents/skills",
            global_skills_dir |-> Some(<<"config_home", "agents/skills">>)]
      [] agent = "codex" ->
           [name |-> "codex", skills_dir |-> ".agents/skills",
            global_skills_dir |-> Some(<<"codex_home", "skills">>)]
      [] agent = "cursor" ->
           [name |-> "cursor", skills_dir |-> ".cursor/skills",
            global_skills_dir |-> Some(<<"home", ".cursor/skills">>)]
      [] agent = "claude-code" ->
           [name |-> "claude-code", skills_dir |-> ".claude/skills",
            global_skills_dir |-> Some(<<"claude_home", "skills">>)]

is_universal(agent) == config(agent).skills_dir = ".agents/skills"

(***************************************************************************)
(* core/paths.rs                                                           *)
(***************************************************************************)
\* the directory the process runs in: what the relative path "." denotes
ProcessCwd == "/proj"

\* PathBuf::from(cwd), made absolute
PathBuf_from(cwd) == IF cwd = "." THEN ProcessCwd ELSE cwd

canonical_skills_dir(global, cwd) ==
    <<IF global THEN "home" ELSE PathBuf_from(cwd), ".agents/skills">>

\* dir.join(name)
join(dir, name) == <<dir[1], dir[2], name>>

(***************************************************************************)
(* Filesystem nodes                                                        *)
(***************************************************************************)
NoNode == [kind |-> "none"]
FileNode == [kind |-> "file"]
Dir(files) == [kind |-> "dir", files |-> files]
Link(target) == [kind |-> "link", target |-> target]
\* an entry the process is not allowed to remove or replace (a file in a
\* directory it cannot write): every remove_* and create_* on the path fails
DeniedNode == [kind |-> "denied"]

\* the skill name the calls are made with ("My s", installed as "my-s")
SkillNames == {<<"M", "y", " ", "s">>}
SanitizedNames == {sanitize_name(n) : n \in SkillNames}

\* a fetched skill outside every install location, and a path with nothing
SourcePath == <<"/tmp/clone", "skills", <<"m", "y", "s">>>>
NowherePath == <<"/tmp/clone", "skills", <<"g","o","n","e">>>>
SourceFiles == {<<"SKILL.md">>, <<"README.md">>, <<"scripts", "run.sh">>}

unwrap_or_dot(project_path) ==
    IF project_path = None THEN "." ELSE unwrap(project_path)

SkillsDirs ==
    {canonical_skills_dir(TRUE, "."), canonical_skills_dir(FALSE, ".")}
    \cup {unwrap(config(a).global_skills_dir) : a \in AgentType}
    \cup {<<ProcessCwd, config(a).skills_dir>> : a \in AgentType}

InstallPaths == {join(d, n) : d \in SkillsDirs, n \in SanitizedNames}
AllPaths == InstallPaths \cup {SourcePath, NowherePath}

\* Path::symlink_metadata().is_ok(): the entry itself, links not followed
symlink_metadata_ok(f, p) == f[p].kind # "none"

\* the node a path resolves to, following links (a link to a link to ... )
RECURSIVE resolve(_, _, _)
resolve(f, p, fuel) ==
    IF f[p].kind # "link" THEN f[p]
    ELSE IF fuel = 0 \/ f[p].target \notin DOMAIN f THEN NoNode
    ELSE resolve(f, f[p].target, fuel - 1)

MaxLinkHops == 3

\* Path::exists() and Path::is_dir(): both follow links
exists(f, p) == resolve(f, p, MaxLinkHops).kind # "none"
is_dir(f, p) == resolve(f, p, MaxLinkHops).kind = "dir"

(***************************************************************************)
(* core/installer.rs                                                       *)
(***************************************************************************)
EXCLUDE_FILES == {"README.md", "metadata.json"}
EXCLUDE_DIRS == {".git"}

\* file_name.starts_with('_'), over the entry names of the model
starts_with_underscore(file_name) == file_name \in {"_internal.md", "_drafts"}

\* whether copy_skill_files skips the file at relative path rel: every
\* directory on the way and the file itself pass the loop's three tests
skipped(rel) ==
    \/ \E i \in 1..Len(rel) :
          rel[i] \in EXCLUDE_FILES \/ starts_with_underscore(rel[i])
    \/ \E i \in 1..(Len(rel) - 1) : rel[i] \in EXCLUDE_DIRS

\* PathBuf::new(): the empty path
PathBuf_new == <<>>

\* returns [ok, fs]; the two removals are best effort (`let _ =`), the
\* create_dir_all is not (`?`)
clean_and_create_directory(f, path) ==
    IF f[path].kind = "denied" THEN [ok |-> FALSE, fs |-> f]
    ELSE [ok |-> TRUE, fs |-> [f EXCEPT ![path] = Dir({})]]

\* returns [ok, fs]; read_dir(src) fails unless src resolves to a directory
copy_skill_files(f, src, dst) ==
    LET f1 == IF f[dst].kind = "none" THEN [f EXCEPT ![dst] = Dir({})] ELSE f
    IN IF f1[dst].kind # "dir" \/ ~is_dir(f1, src)
       THEN [ok |-> FALSE, fs |-> f1]
       ELSE LET files == resolve(f1, src, MaxLinkHops).files
                copied == {rel \in files : ~skipped(rel)}
            IN [ok |-> TRUE,
                fs |-> [f1 EXCEPT ![dst] = Dir(f1[dst].files \cup copied)]]

\* returns [ok, fs]; link_ok is whether the OS lets the link be created
create_symlink(f, target, link, link_ok) ==
    IF target = link THEN [ok |-> TRUE, fs |-> f]
    ELSE IF f[link].kind = "denied" THEN [ok |-> FALSE, fs |-> f]
    ELSE LET f1 == [f EXCEPT ![link] = NoNode]
         IN IF link_ok
            THEN [ok |-> TRUE, fs |-> [f1 EXCEPT ![link] = Link(target)]]
            ELSE [ok |-> FALSE, fs |-> f1]

agent_base(agent, is_global, cwd) ==
    IF is_global THEN unwrap(config(agent).global_skills_dir)
    ELSE <<PathBuf_from(cwd), config(agent).skills_dir>>

\* install_with_symlink linking every agent, the universal ones in Global
\* scope too
install_with_symlink_always_linking(f, skill_path, skill_name, agent, is_global, cwd, link_ok) ==
    LET canonical_dir == join(canonical_skills_dir(is_global, cwd), skill_name)
        d1 == clean_and_create_directory(f, canonical_dir)
        c1 == copy_skill_files(d1.fs, skill_path, canonical_dir)
        agent_dir == join(agent_base(agent, is_global, cwd), skill_name)
        s == create_symlink(c1.fs, canonical_dir, agent_dir, link_ok)
        d2 == clean_and_create_directory(s.fs, agent_dir)
        c2 == copy_skill_files(d2.fs, skill_path, agent_dir)
        failed(g) == [ok |-> FALSE, fs |-> g, path |-> PathBuf_new,
                      canonical_path |-> None, symlink_failed |-> FALSE]
    IN IF ~d1.ok THEN failed(d1.fs)
       ELSE IF ~c1.ok THEN failed(c1.fs)
       ELSE IF s.ok
       THEN [ok |-> TRUE, fs |-> s.fs, path |-> agent_dir,
             canonical_path |-> Some(canonical_dir), symlink_failed |-> FALSE]
       ELSE IF ~d2.ok THEN failed(d2.fs)
       ELSE IF ~c2.ok THEN failed(c2.fs)
       ELSE [ok |-> TRUE, fs |-> c2.fs, path |-> agent_dir,
             canonical_path |-> Some(canonical_dir), symlink_failed |-> TRUE]

\* returns [ok, fs, path, canonical_path, symlink_failed]
install_with_symlink(f, skill_path, skill_name, agent, is_global, cwd, link_ok) ==
    LET canonical_dir == join(canonical_skills_dir(is_global, cwd), skill_name)
        d1 == clean_and_create_directory(f, canonical_dir)
        c1 == copy_skill_files(d1.fs, skill_path, canonical_dir)
        agent_dir == join(agent_base(agent, is_global, cwd), skill_name)
        failed(g) == [ok |-> FALSE, fs |-> g, path |-> PathBuf_new,
                      canonical_path |-> None, symlink_failed |-> FALSE]
    IN IF ~d1.ok THEN failed(d1.fs)
       ELSE IF ~c1.ok THEN failed(c1.fs)
       ELSE IF is_global /\ is_universal(agent)
       THEN [ok |-> TRUE, fs |-> c1.fs, path |-> canonical_dir,
             canonical_path |-> Some(canonical_dir), symlink_failed |-> FALSE]
       ELSE LET s == create_symlink(c1.fs, canonical_dir, agent_dir, link_ok)
            IN IF s.ok
               THEN [ok |-> TRUE, fs |-> s.fs, path |-> agent_dir,
                     canonical_path |-> Some(canonical_dir),
                     symlink_failed |-> FALSE]
               ELSE LET d2 == clean_and_create_directory(s.fs, agent_dir)
                        c2 == copy_skill_files(d2.fs, skill_path, agent_dir)
                    IN IF ~d2.ok THEN failed(d2.fs)
                       ELSE IF ~c2.ok THEN failed(c2.fs)
                       ELSE [ok |-> TRUE, fs |-> c2.fs, path |-> agent_dir,
                             canonical_path |-> Some(canonical_dir),
                             symlink_failed |-> TRUE]

install_with_copy(f, skill_path, skill_name, agent, is_global, cwd) ==
    LET agent_dir == join(agent_base(agent, is_global, cwd), skill_name)
        d1 == clean_and_create_directory(f, agent_dir)
        c1 == copy_skill_files(d1.fs, skill_path, agent_dir)
    IN IF ~d1.ok \/ ~c1.ok
       THEN [ok |-> FALSE, fs |-> IF d1.ok THEN c1.fs ELSE d1.fs,
             path |-> PathBuf_new,
             canonical_path |-> None, symlink_failed |-> FALSE]
       ELSE [ok |-> TRUE, fs |-> c1.fs, path |-> agent_dir,
             canonical_path |-> None, symlink_failed |-> FALSE]

\* returns [fs, result]; result is the InstallResult
install_skill_for_agent(f, skill_path, skill_name, agent, scope, project_path, mode, link_ok) ==
    LET is_global == scope = "global"
        cwd == unwrap_or_dot(project_path)
        sanitized_name == sanitize_name(skill_name)
    IN IF is_global /\ config(agent).global_skills_dir = None
       THEN [fs |-> f,
             result |-> [success |-> FALSE, path |-> PathBuf_new,
                         canonical_path |-> None, mode |-> mode,
                         symlink_failed |-> FALSE]]
       ELSE LET r == IF mode = "symlink"
                     THEN install_with_symlink(f, skill_path, sanitized_name,
                                               agent, is_global, cwd, link_ok)
                     ELSE install_with_copy(f, skill_path, sanitized_name,
                                            agent, is_global, cwd)
            IN [fs |-> r.fs,
                result |->
                  IF r.ok
                  THEN [success |-> TRUE, path |-> r.path,
                        canonical_path |-> r.canonical_path,
                        mode |-> IF r.symlink_failed THEN "copy" ELSE mode,
                        symlink_failed |-> r.symlink_failed]
                  ELSE [success |-> FALSE, path |-> PathBuf_new,
                        canonical_path |-> None, mode |-> mode,
                        symlink_failed |-> FALSE]]

is_skill_installed(f, skill_name, agent, scope, project_path) ==
    LET is_global == scope = "global"
        cwd == unwrap_or_dot(project_path)
    IN IF is_global /\ config(agent).global_skills_dir = None THEN FALSE
       ELSE exists(f, join(agent_base(agent, is_global, cwd),
                           sanitize_name(skill_name)))

(***************************************************************************)
(* Maps (HashMap / BTreeMap keyed by skill name)                           *)
(***************************************************************************)
EmptyMap == [k \in {} |-> None]
map_insert(m, key, value) ==
    [k \in (DOMAIN m) \cup {key} |-> IF k = key THEN value ELSE m[k]]
map_remove(m, key) == [k \in (DOMAIN m) \ {key} |-> m[k]]
map_get(m, key) == IF key \in DOMAIN m THEN Some(m[key]) ELSE None

\* a lock file on disk: not there, there but unreadable as text (read_to_string
\* fails), readable but not parsable as the expected JSON, or parsable
AbsentFile == [kind |-> "absent"]
UnreadableFile == [kind |-> "unreadable"]
UnparsableFile == [kind |-> "unparsable"]
JsonFile(lock) == [kind |-> "json", version |-> lock.version, skills |-> lock.skills]

(***************************************************************************)
(* core/skill_lock.rs : the per-user store                                 *)
(***************************************************************************)
CURRENT_VERSION == 3

SkillLockFile_empty == [version |-> CURRENT_VERSION, skills |-> EmptyMap]

\* read_skill_lock without the version check
read_skill_lock_any_version(file) ==
    IF file.kind = "absent" THEN [ok |-> TRUE, lock |-> SkillLockFile_empty]
    ELSE IF file.kind = "unreadable" THEN [ok |-> FALSE, lock |-> None]
    ELSE IF file.kind = "unparsable" THEN [ok |-> TRUE, lock |-> SkillLockFile_empty]
    ELSE [ok |-> TRUE,
          lock |-> [version |-> file.version, skills |-> file.skills]]

\* returns [ok, lock]: Ok(lock) or Err(Io)
read_skill_lock(file) ==
    IF file.kind = "absent" THEN [ok |-> TRUE, lock |-> SkillLockFile_empty]
    ELSE IF file.kind = "unreadable" THEN [ok |-> FALSE, lock |-> None]
    ELSE IF file.kind = "unparsable" THEN [ok |-> TRUE, lock |-> SkillLockFile_empty]
    ELSE IF file.version < CURRENT_VERSION
         THEN [ok |-> TRUE, lock |-> SkillLockFile_empty]
    ELSE [ok |-> TRUE,
          lock |-> [version |-> file.version, skills |-> file.skills]]

\* returns [ok, entry]: Ok(Some(entry)), Ok(None) or Err
get_skill_from_lock(file, skill_name) ==
    LET r == read_skill_lock(file)
    IN IF ~r.ok THEN [ok |-> FALSE, entry |-> None]
       ELSE [ok |-> TRUE, entry |-> map_get(r.lock.skills, skill_name)]

\* returns [ok, skills]
get_all_locked_skills(file) ==
    LET r == read_skill_lock(file)
    IN IF ~r.ok THEN [ok |-> FALSE, skills |-> None]
       ELSE [ok |-> TRUE, skills |-> r.lock.skills]

write_skill_lock(lock) == JsonFile(lock)

\* add_skill_to_lock stamping installed_at anew on every call
add_skill_to_lock_restamped(file, t, skill_name, source, source_type, source_url, skill_path, skill_folder_hash) ==
    LET r == read_skill_lock(file)
        lock == IF r.ok THEN r.lock ELSE SkillLockFile_empty
        entry == [source |-> source, source_type |-> source_type,
                  source_url |-> source_url, skill_path |-> skill_path,
                  skill_folder_hash |-> skill_folder_hash,
                  installed_at |-> t, updated_at |-> t]
    IN write_skill_lock([lock EXCEPT !.skills = map_insert(@, skill_name, entry)])

\* returns the file after the call; t is the clock reading
add_skill_to_lock(file, t, skill_name, source, source_type, source_url, skill_path, skill_folder_hash) ==
    LET r == read_skill_lock(file)
        lock == IF r.ok THEN r.lock ELSE SkillLockFile_empty
        installed_at == IF skill_name \in DOMAIN lock.skills
                        THEN lock.skills[skill_name].installed_at
                        ELSE t
        entry == [source |-> source, source_type |-> source_type,
                  source_url |-> source_url, skill_path |-> skill_path,
                  skill_folder_hash |-> skill_folder_hash,
                  installed_at |-> installed_at, updated_at |-> t]
    IN write_skill_lock([lock EXCEPT !.skills = map_insert(@, skill_name, entry)])

\* remove_skill_from_lock writing the store back whether or not it held the
\* entry
remove_skill_from_lock_rewriting(file, skill_name) ==
    LET r == read_skill_lock(file)
    IN IF ~r.ok THEN [ok |-> FALSE, removed |-> FALSE, file |-> file]
       ELSE [ok |-> TRUE, removed |-> skill_name \in DOMAIN r.lock.skills,
             file |-> write_skill_lock(
                        [r.lock EXCEPT !.skills = map_remove(@, skill_name)])]

\* returns [ok, removed, file]: Ok(removed) or Err, and the file after the call
remove_skill_from_lock(file, skill_name) ==
    LET r == read_skill_lock(file)
    IN IF ~r.ok THEN [ok |-> FALSE, removed |-> FALSE, file |-> file]
       ELSE IF skill_name \notin DOMAIN r.lock.skills
       THEN [ok |-> TRUE, removed |-> FALSE, file |-> file]
       ELSE [ok |-> TRUE, removed |-> TRUE,
             file |-> write_skill_lock(
                        [r.lock EXCEPT !.skills = map_remove(@, skill_name)])]

(***************************************************************************)
(* core/local_lock.rs : the per-project store                              *)
(***************************************************************************)
LOCAL_LOCK_VERSION == 1

LocalSkillLockFile_empty == [version |-> LOCAL_LOCK_VERSION, skills |-> EmptyMap]

\* returns [ok, lock]
read_and_convert_legacy_lock(legacy) ==
    IF legacy.kind = "unreadable" THEN [ok |-> FALSE, lock |-> None]
    ELSE IF legacy.kind = "unparsable"
    THEN [ok |-> TRUE, lock |-> LocalSkillLockFile_empty]
    ELSE [ok |-> TRUE,
          lock |->
           [version |-> LOCAL_LOCK_VERSION,
            skills |->
             [k \in DOMAIN legacy.skills |->
               [source |-> legacy.skills[k].source,
                source_type |-> legacy.skills[k].source_type,
                computed_hash |-> "",
                remote_hash |-> IF legacy.skills[k].skill_folder_hash = ""
                                THEN None
                                ELSE Some(legacy.skills[k].skill_folder_hash),
                skill_path |-> legacy.skills[k].skill_path]]]]

\* read_local_lock turning to the legacy file whenever the modern one gives
\* no store
read_local_lock_falling_back(modern, legacy) ==
    IF modern.kind = "unreadable" THEN [ok |-> FALSE, lock |-> None]
    ELSE IF modern.kind = "json" /\ modern.version >= LOCAL_LOCK_VERSION
    THEN [ok |-> TRUE,
          lock |-> [version |-> modern.version, skills |-> modern.skills]]
    ELSE IF legacy.kind # "absent"
         THEN read_and_convert_legacy_lock(legacy)
         ELSE [ok |-> TRUE, lock |-> LocalSkillLockFile_empty]

\* returns [ok, lock]
read_local_lock(modern, legacy) ==
    IF modern.kind # "absent"
    THEN IF modern.kind = "unreadable" THEN [ok |-> FALSE, lock |-> None]
         ELSE IF modern.kind = "json" /\ modern.version >= LOCAL_LOCK_VERSION
         THEN [ok |-> TRUE,
               lock |-> [version |-> modern.version, skills |-> modern.skills]]
         ELSE [ok |-> TRUE, lock |-> LocalSkillLockFile_empty]
    ELSE IF legacy.kind # "absent"
         THEN read_and_convert_legacy_lock(legacy)
         ELSE [ok |-> TRUE, lock |-> LocalSkillLockFile_empty]

write_local_lock(lock) == JsonFile(lock)

\* returns the modern file after the call
add_skill_to_local_lock(modern, legacy, skill_name, entry) ==
    LET r == read_local_lock(modern, legacy)
    IN IF ~r.ok THEN modern
       ELSE write_local_lock(
              [r.lock EXCEPT !.skills = map_insert(@, skill_name, entry)])

\* returns the modern file after the call
remove_skill_from_local_lock(modern, legacy, skill_name) ==
    LET r == read_local_lock(modern, legacy)
    IN IF ~r.ok THEN modern
       ELSE IF skill_name \notin DOMAIN r.lock.skills THEN modern
       ELSE write_local_lock(
              [r.lock EXCEPT !.skills = map_remove(@, skill_name)])

(***************************************************************************)
(* core/uninstaller.rs                                                     *)
(***************************************************************************)
\* AgentType::all(): the registry in declaration order
all_agents == <<"amp", "claude-code", "codex", "cursor">>

\* remove_path with remove_file alone: a real directory makes it fail
remove_path_files_only(f, path) ==
    IF f[path].kind = "none" THEN [ok |-> TRUE, fs |-> f]
    ELSE IF f[path].kind \in {"dir", "denied"} THEN [ok |-> FALSE, fs |-> f]
    ELSE [ok |-> TRUE, fs |-> [f EXCEPT ![path] = NoNode]]

\* returns [ok, fs]
remove_path(f, path) ==
    IF f[path].kind = "none" THEN [ok |-> TRUE, fs |-> f]
    ELSE IF f[path].kind = "denied" THEN [ok |-> FALSE, fs |-> f]
    ELSE [ok |-> TRUE, fs |-> [f EXCEPT ![path] = NoNode]]

\* the agent's skill path, or None when the agent has no global directory
agent_skill_path(agent, is_global, cwd, sanitized_name) ==
    IF is_global
    THEN IF config(agent).global_skills_dir = None THEN None
         ELSE Some(join(unwrap(config(agent).global_skills_dir), sanitized_name))
    ELSE Some(join(<<PathBuf_from(cwd), config(agent).skills_dir>>, sanitized_name))

\* the loop over agents_to_remove, from its i-th element on;
\* returns [fs, removed_paths]
RECURSIVE remove_agent_paths(_, _, _, _, _, _, _)
remove_agent_paths(f, agents, i, is_global, cwd, sanitized_name, removed_paths) ==
    IF i > Len(agents) THEN [fs |-> f, removed_paths |-> removed_paths]
    ELSE LET skill_path == agent_skill_path(agents[i], is_global, cwd, sanitized_name)
         IN IF skill_path = None
            THEN remove_agent_paths(f, agents, i + 1, is_global, cwd,
                                    sanitized_name, removed_paths)
            ELSE LET r == remove_path(f, unwrap(skill_path))
                     listed == r.ok /\ ~(exists(r.fs, unwrap(skill_path))
                                         \/ symlink_metadata_ok(r.fs, unwrap(skill_path)))
                 IN remove_agent_paths(r.fs, agents, i + 1, is_global, cwd,
                        sanitized_name,
                        IF listed THEN removed_paths \cup {unwrap(skill_path)}
                        ELSE removed_paths)

\* AgentType::all().any(..): an agent outside the selection whose skill
\* path is still there after the loop (the entry itself, links not followed)
still_used(f, agents_to_remove, is_global, cwd, sanitized_name) ==
    \E agent \in AgentType :
       /\ agent \notin agents_to_remove
       /\ agent_skill_path(agent, is_global, cwd, sanitized_name) # None
       /\ symlink_metadata_ok(f,
             unwrap(agent_skill_path(agent, is_global, cwd, sanitized_name)))

\* the agents of a set, in registry order
in_order(agent_set) == SelectSeq(all_agents, LAMBDA a : a \in agent_set)

\* target_agents is None or Some(set of agents); detected is what
\* AgentType::detect_installed() finds on this machine.
\* returns [fs, lock_file, local_file, agents, result]
remove_skill(f, lockf, localf, legacyf, skill_name, scope, project_path, full_removal, target_agents, detected) ==
    LET is_global == scope = "global"
        cwd == unwrap_or_dot(project_path)
        sanitized_name == sanitize_name(skill_name)
        agents_to_remove ==
            IF target_agents # None THEN unwrap(target_agents)
            ELSE IF detected = {} THEN AgentType ELSE detected
        loop == remove_agent_paths(f, in_order(agents_to_remove), 1, is_global,
                                   cwd, sanitized_name, {})
        canonical_path == join(canonical_skills_dir(is_global, cwd), sanitized_name)
        should_remove_canonical ==
            ~still_used(loop.fs, agents_to_remove, is_global, cwd, sanitized_name)
        f2 == IF full_removal /\ should_remove_canonical
              THEN remove_path(loop.fs, canonical_path).fs
              ELSE loop.fs
        \* get_skill_from_lock(skill_name).ok().flatten()
        global_entry == get_skill_from_lock(lockf, skill_name).entry
        \* read_local_lock(project_dir).ok().and_then(|l| l.skills.get(..))
        local_read == read_local_lock(localf, legacyf)
        local_entry == IF local_read.ok
                       THEN map_get(local_read.lock.skills, skill_name)
                       ELSE None
        source ==
            IF ~full_removal THEN None
            ELSE IF is_global
                 THEN Some(IF global_entry = None THEN "local"
                           ELSE unwrap(global_entry).source)
                 ELSE IF project_path = None \/ local_entry = None THEN None
                      ELSE Some(unwrap(local_entry).source)
        source_type ==
            IF ~full_removal THEN None
            ELSE IF is_global
                 THEN Some(IF global_entry = None THEN "local"
                           ELSE unwrap(global_entry).source_type)
                 ELSE IF project_path = None \/ local_entry = None THEN None
                      ELSE Some(unwrap(local_entry).source_type)
    IN [fs |-> f2,
        lock_file |-> IF full_removal /\ is_global
                      THEN remove_skill_from_lock(lockf, skill_name).file
                      ELSE lockf,
        local_file |-> IF full_removal /\ ~is_global /\ project_path # None
                       THEN remove_skill_from_local_lock(localf, legacyf, skill_name)
                       ELSE localf,
        agents |-> agents_to_remove,
        result |-> [success |-> TRUE, removed_paths |-> loop.removed_paths,
                    source |-> source, source_type |-> source_type]]

(***************************************************************************)
(* core/discovery.rs                                                       *)
(* A directory is the sequence of its path components below the search     *)
(* path; a tree gives each directory that can hold a manifest what its     *)
(* SKILL.md is: none, one parse_skill_md rejects, or a skill.              *)
(***************************************************************************)
SKIP_DIRS == {"node_modules", ".git", "dist", "build", "__pycache__"}
MAX_DEPTH == 5

NoManifest == [kind |-> "none"]
BadManifest == [kind |-> "bad"]
\* a SKILL.md parse_skill_md accepts; metadata is None (no metadata block)
\* or Some([internal |-> b]) (serde fills a missing `internal` with false)
SkillManifest(name, metadata) ==
    [kind |-> "skill", name |-> name, metadata |-> metadata]

\* the directories of the model that can hold a SKILL.md, in one order the
\* OS can list them in
ManifestDirs ==
    << <<>>,
       <<"top">>,
       <<"skills", "alpha">>,
       <<"skills", "beta">>,
       <<".claude", "skills", "alpha">>,
       <<"docs", "examples", "gamma">>,
       <<"node_modules", "pkg">>,
       <<"a", "b", "c", "d", "deep">> >>

\* get_priority_search_dirs, relative to search_path
get_priority_search_dirs ==
    << <<>>,
       <<"skills">>,
       <<"skills", ".curated">>,
       <<"skills", ".experimental">>,
       <<"skills", ".system">>,
       <<".agent", "skills">>,
       <<".agents", "skills">>,
       <<".claude", "skills">>,
       <<".cline", "skills">>,
       <<".codebuddy", "skills">>,
       <<".codex", "skills">>,
       <<".commandcode", "skills">>,
       <<".continue", "skills">>,
       <<".cursor", "skills">>,
       <<".github", "skills">>,
       <<".goose", "skills">>,
       <<".iflow", "skills">>,
       <<".junie", "skills">>,
       <<".kilocode", "skills">>,
       <<".kiro", "skills">>,
       <<".mux", "skills">>,
       <<".neovate", "skills">>,
       <<".opencode", "skills">>,
       <<".openhands", "skills">>,
       <<".pi", "skills">>,
       <<".qoder", "skills">>,
       <<".roo", "skills">>,
       <<".trae", "skills">>,
       <<".windsurf", "skills">>,
       <<".zencoder", "skills">> >>

\* std::env::var("INSTALL_INTERNAL_SKILLS") is "1" or "true"; env is
\* whether the variable is set so
should_install_internal_skills(env) == env

\* returns Some(skill) or None; the call itself never fails.  options
\* carries, besides the DiscoverOptions, the process environment.
\* parsed.metadata.as_ref().map(|m| m.internal).unwrap_or(false)
internal_flag(manifest) ==
    IF manifest.metadata = None THEN FALSE ELSE unwrap(manifest.metadata).internal

\* try_parse_skill with the internal test deaf to the caller's option
try_parse_skill_ignoring_option(manifest, dir, options) ==
    IF manifest.kind = "bad" THEN None
    ELSE IF /\ internal_flag(manifest)
            /\ ~should_install_internal_skills(options.env)
         THEN None
    ELSE Some([name |-> manifest.name, path |-> dir,
               is_internal |-> internal_flag(manifest)])

try_parse_skill(manifest, dir, options) ==
    IF manifest.kind = "bad" THEN None
    ELSE LET is_internal == internal_flag(manifest)
         IN IF /\ is_internal
               /\ ~options.include_internal
               /\ ~should_install_internal_skills(options.env)
            THEN None
            ELSE Some([name |-> manifest.name, path |-> dir,
                       is_internal |-> is_internal])

\* the collection so far: skills, seen_names, and (history, not values of
\* the code) every skill try_parse_skill has returned and every directory
\* it was called for, in order
NoSkills ==
    [skills |-> <<>>, seen_names |-> {}, encountered |-> <<>>, visited |-> <<>>]

\* the dedup step without its seen_names test
push_always(acc, skill) ==
    [skills |-> Append(acc.skills, skill),
     seen_names |-> acc.seen_names \cup {skill.name},
     encountered |-> Append(acc.encountered, skill),
     visited |-> acc.visited]

\* if !seen_names.contains(&skill.name) { insert; push }
push_unless_seen(acc, skill) ==
    IF skill.name \in acc.seen_names
    THEN [acc EXCEPT !.encountered = Append(@, skill)]
    ELSE [skills |-> Append(acc.skills, skill),
          seen_names |-> acc.seen_names \cup {skill.name},
          encountered |-> Append(acc.encountered, skill),
          visited |-> acc.visited]

\* the body of both loops for one directory that holds a SKILL.md
visit(acc, tree, dir, options) ==
    IF tree[dir].kind = "none" THEN acc
    ELSE LET skill == try_parse_skill(tree[dir], dir, options)
             called == [acc EXCEPT !.visited = Append(@, dir)]
         IN IF skill = None THEN called
            ELSE push_unless_seen(called, unwrap(skill))

\* a `for entry in ..` loop over the directories dirs, from the i-th on
RECURSIVE visit_each(_, _, _, _, _)
visit_each(acc, tree, dirs, i, options) ==
    IF i > Len(dirs) THEN acc
    ELSE visit_each(visit(acc, tree, dirs[i], options), tree, dirs, i + 1, options)

\* the direct subdirectories of dir, in the order read_dir lists them
discover_in_dir(acc, tree, listing, dir, options) ==
    visit_each(acc, tree,
               SelectSeq(listing,
                         LAMBDA d : /\ Len(d) = Len(dir) + 1
                                    /\ SubSeq(d, 1, Len(dir)) = dir),
               1, options)

\* every SKILL.md the walk reaches: at depth MAX_DEPTH at most, under no
\* directory named in SKIP_DIRS
discover_recursive(acc, tree, listing, options) ==
    visit_each(acc, tree,
               SelectSeq(listing,
                         LAMBDA d : /\ Len(d) + 1 <= MAX_DEPTH
                                    /\ \A k \in 1..Len(d) : d[k] \notin SKIP_DIRS),
               1, options)

\* the loop over the priority directories, from the i-th on
RECURSIVE discover_priority(_, _, _, _, _)
discover_priority(acc, tree, listing, i, options) ==
    IF i > Len(get_priority_search_dirs) THEN acc
    ELSE discover_priority(
            discover_in_dir(acc, tree, listing, get_priority_search_dirs[i], options),
            tree, listing, i + 1, options)

\* discover_skills going on to the conventional directories after a skill at
\* the search path itself, whatever full_depth is
discover_skills_searching_on(tree, listing, options) ==
    LET root == IF tree[<<>>].kind = "none" THEN None
                ELSE try_parse_skill(tree[<<>>], <<>>, options)
        called == IF tree[<<>>].kind = "none" THEN NoSkills
                  ELSE [NoSkills EXCEPT !.visited = << <<>> >>]
        acc0 == IF root = None THEN called
                ELSE push_always(called, unwrap(root))
        acc1 == discover_priority(acc0, tree, listing, 1, options)
        acc2 == IF acc1.skills = <<>> \/ options.full_depth
                THEN discover_recursive(acc1, tree, listing, options)
                ELSE acc1
    IN [ok |-> TRUE, skills |-> acc2.skills,
        encountered |-> acc2.encountered, visited |-> acc2.visited]

\* returns [ok, skills, encountered, visited]
discover_skills(tree, listing, options) ==
    LET root == IF tree[<<>>].kind = "none" THEN None
                ELSE try_parse_skill(tree[<<>>], <<>>, options)
        called == IF tree[<<>>].kind = "none" THEN NoSkills
                  ELSE [NoSkills EXCEPT !.visited = << <<>> >>]
        acc0 == IF root = None THEN called
                ELSE push_always(called, unwrap(root))
    IN IF root # None /\ ~options.full_depth
       THEN [ok |-> TRUE, skills |-> acc0.skills,
             encountered |-> acc0.encountered, visited |-> acc0.visited]
       ELSE LET acc1 == discover_priority(acc0, tree, listing, 1, options)
                acc2 == IF acc1.skills = <<>> \/ options.full_depth
                        THEN discover_recursive(acc1, tree, listing, options)
                        ELSE acc1
            IN [ok |-> TRUE, skills |-> acc2.skills,
                encountered |-> acc2.encountered, visited |-> acc2.visited]

(***************************************************************************)
(* core/source_parser.rs                                                   *)
(* A string is a sequence of one-character strings; positions returned by  *)
(* find/rfind are 0-based as in Rust.                                      *)
(***************************************************************************)
starts_with(s, prefix) ==
    Len(s) >= Len(prefix) /\ SubSeq(s, 1, Len(prefix)) = prefix

ends_with(s, suffix) ==
    Len(s) >= Len(suffix) /\ SubSeq(s, Len(s) - Len(suffix) + 1, Len(s)) = suffix

contains(s, pat) ==
    \E i \in 1..(Len(s) - Len(pat) + 1) : SubSeq(s, i, i + Len(pat) - 1) = pat

\* str::find(pat) / str::rfind(c): Option<usize>
find(s, pat) ==
    IF contains(s, pat)
    THEN Some(Min({i \in 1..(Len(s) - Len(pat) + 1) :
                      SubSeq(s, i, i + Len(pat) - 1) = pat}) - 1)
    ELSE None

rfind(s, c) ==
    IF \E i \in 1..Len(s) : s[i] = c
    THEN Some(Max({i \in 1..Len(s) : s[i] = c}) - 1)
    ELSE None

\* &s[from..] and &s[..to] with 0-based byte positions
slice_from(s, from) == SubSeq(s, from + 1, Len(s))
slice_to(s, to) == SubSeq(s, 1, to)

is_whitespace(c) == c \in {" ", "\t", "\n"}

\* str::trim
RECURSIVE trim(_)
trim(s) ==
    IF s = <<>> THEN s
    ELSE IF is_whitespace(s[1]) THEN trim(Tail(s))
    ELSE IF is_whitespace(s[Len(s)]) THEN trim(SubSeq(s, 1, Len(s) - 1))
    ELSE s

\* str::trim_end_matches(pat) (every repetition of pat goes)
RECURSIVE trim_end_matches(_, _)
trim_end_matches(s, pat) ==
    IF ends_with(s, pat)
    THEN trim_end_matches(SubSeq(s, 1, Len(s) - Len(pat)), pat)
    ELSE s

\* str::trim_start_matches('/')
RECURSIVE trim_start_matches(_, _)
trim_start_matches(s, c) ==
    IF s # <<>> /\ s[1] = c THEN trim_start_matches(Tail(s), c) ELSE s

\* str::split(c).collect(): never empty, "" splits into [""]
RECURSIVE split(_, _)
split(s, c) ==
    LET at == find(s, <<c>>)
    IN IF at = None THEN <<s>>
       ELSE <<slice_to(s, unwrap(at))>> \o split(slice_from(s, unwrap(at) + 1), c)

\* parts[from..].join("/"), from 0-based
RECURSIVE join_from(_, _)
join_from(parts, from) ==
    IF from + 1 > Len(parts) THEN <<>>
    ELSE IF from + 1 = Len(parts) THEN parts[from + 1]
    ELSE parts[from + 1] \o <<"/">> \o join_from(parts, from + 1)

str_to_lowercase(s) == [i \in 1..Len(s) |-> to_lowercase(s[i])]

is_ascii_alphabetic(c) ==
    \E i \in 1..26 : LowerLetters[i] = c \/ UpperLetters[i] = c

HttpScheme == <<"h","t","t","p",":","/","/">>
HttpsScheme == <<"h","t","t","p","s",":","/","/">>
GitAt == <<"g","i","t","@">>
DotGit == <<".","g","i","t">>
GithubCom == <<"g","i","t","h","u","b",".","c","o","m">>
WwwGithubCom == <<"w","w","w",".">> \o GithubCom
GitlabCom == <<"g","i","t","l","a","b",".","c","o","m">>
Gitlab == <<"g","i","t","l","a","b">>
SkillMd == <<"s","k","i","l","l",".","m","d">>
GithubBase == HttpsScheme \o GithubCom \o <<"/">>
TreeMarker == <<"/","-","/","t","r","e","e","/">>
Tree == <<"t","r","e","e">>
Blob == <<"b","l","o","b">>

InvalidSource == [ok |-> FALSE, err |-> "InvalidSource"]

ParsedSource(source_type, url, subpath, local_path, git_ref, skill_filter) ==
    [ok |-> TRUE, source_type |-> source_type, url |-> url,
     subpath |-> subpath, local_path |-> local_path, git_ref |-> git_ref,
     skill_filter |-> skill_filter]

ParsedSource_github(url) == ParsedSource("github", url, None, None, None, None)
ParsedSource_local(path) == ParsedSource("local", <<>>, None, Some(path), None, None)

is_local_path(input) ==
    \/ starts_with(input, <<"/">>)
    \/ starts_with(input, <<".", "/">>)
    \/ starts_with(input, <<".", ".", "/">>)
    \/ /\ Len(input) >= 3
       /\ is_ascii_alphabetic(input[1])
       /\ input[2] = ":"
       /\ input[3] \in {"\\", "/"}

parse_local_path(input) == ParsedSource_local(input)

\* Url::parse of the url crate on inputs "http(s)://" authority [ "/" path ]
\* whose authority has no userinfo or port and whose path has no query,
\* fragment, backslash, dot segment or character that is percent-encoded:
\* the host is lowercased, an empty path becomes "/", an empty host is an
\* error.  Returns [ok, host, path].
Url_parse(input) ==
    LET rest == IF starts_with(input, HttpsScheme)
                THEN slice_from(input, Len(HttpsScheme))
                ELSE slice_from(input, Len(HttpScheme))
        slash == find(rest, <<"/">>)
        authority == IF slash = None THEN rest ELSE slice_to(rest, unwrap(slash))
        path == IF slash = None THEN <<"/">> ELSE slice_from(rest, unwrap(slash))
    IN IF authority = <<>> THEN [ok |-> FALSE]
       ELSE [ok |-> TRUE, host |-> str_to_lowercase(authority), path |-> path]

parse_github_url(input, url) ==
    LET path == trim_start_matches(url.path, "/")
        parts == split(path, "/")
    IN IF Len(parts) < 2 THEN InvalidSource
       ELSE LET owner == parts[1]
                repo == trim_end_matches(parts[2], DotGit)
                base_url == GithubBase \o owner \o <<"/">> \o repo
                has_ref == Len(parts) > 3 /\ parts[3] \in {Tree, Blob}
            IN ParsedSource("github", base_url,
                            IF has_ref /\ Len(parts) > 4
                            THEN Some(join_from(parts, 4)) ELSE None,
                            None,
                            IF has_ref THEN Some(parts[4]) ELSE None,
                            None)

parse_gitlab_url(input, url) ==
    LET path == trim_start_matches(url.path, "/")
        tree_pos == find(path, TreeMarker)
    IN IF tree_pos # None
       THEN LET repo_path == slice_to(path, unwrap(tree_pos))
                after_tree == slice_from(path, unwrap(tree_pos) + 8)
                parts == split(after_tree, "/")
                base_url == HttpsScheme \o url.host \o <<"/">> \o repo_path
            IN ParsedSource("gitlab", base_url,
                            IF Len(parts) > 1 THEN Some(join_from(parts, 1)) ELSE None,
                            None, Some(parts[1]), None)
       ELSE ParsedSource("gitlab", input, None, None, None, None)

parse_url(input) ==
    LET url == Url_parse(input)
    IN IF ~url.ok THEN InvalidSource
       ELSE IF url.host = GithubCom \/ url.host = WwwGithubCom
            THEN parse_github_url(input, url)
       ELSE IF url.host = GitlabCom \/ contains(url.host, Gitlab)
            THEN parse_gitlab_url(input, url)
       ELSE IF ends_with(str_to_lowercase(url.path), SkillMd)
            THEN ParsedSource("direct-url", input, None, None, None, None)
       ELSE ParsedSource("well-known", input, None, None, None, None)

parse_git_url(input) == ParsedSource("git", input, None, None, None, None)

\* the (source, skill_filter) pair of parse_github_shorthand, with the
\* test on the text after '@' left to the caller's choice of operator
at_split_any_text(input) ==
    LET at_pos == rfind(input, "@")
    IN IF at_pos = None THEN <<input, None>>
       ELSE LET slash == rfind(input, "/")
                last_slash == IF slash = None THEN 0 ELSE unwrap(slash)
            IN IF unwrap(at_pos) > last_slash
               THEN <<slice_to(input, unwrap(at_pos)),
                      Some(slice_from(input, unwrap(at_pos) + 1))>>
               ELSE <<input, None>>

at_split(input) ==
    LET at_pos == rfind(input, "@")
    IN IF at_pos = None THEN <<input, None>>
       ELSE LET slash == rfind(input, "/")
                last_slash == IF slash = None THEN 0 ELSE unwrap(slash)
            IN IF unwrap(at_pos) > last_slash
               THEN LET source == slice_to(input, unwrap(at_pos))
                        filter == slice_from(input, unwrap(at_pos) + 1)
                    IN IF filter # <<>> /\ ~contains(filter, <<"/">>)
                       THEN <<source, Some(filter)>>
                       ELSE <<input, None>>
               ELSE <<input, None>>

parse_github_shorthand(raw) ==
    LET input == trim_end_matches(raw, DotGit)
        source == at_split(input)[1]
        skill_filter == at_split(input)[2]
        parts == split(source, "/")
    IN IF Len(parts) < 2 THEN InvalidSource
       ELSE ParsedSource("github", GithubBase \o parts[1] \o <<"/">> \o parts[2],
                         IF Len(parts) > 2 THEN Some(join_from(parts, 2)) ELSE None,
                         None, None, skill_filter)

\* parse_source with the shorthand rule tried before the git@ rule
parse_source_shorthand_first(raw) ==
    LET input == trim(raw)
    IN IF input = <<>> THEN InvalidSource
       ELSE IF is_local_path(input) THEN parse_local_path(input)
       ELSE IF starts_with(input, HttpScheme) \/ starts_with(input, HttpsScheme)
            THEN parse_url(input)
       ELSE IF parse_github_shorthand(input).ok THEN parse_github_shorthand(input)
       ELSE IF starts_with(input, GitAt) THEN parse_git_url(input)
       ELSE InvalidSource

parse_source(raw) ==
    LET input == trim(raw)
    IN IF input = <<>> THEN InvalidSource
       ELSE IF is_local_path(input) THEN parse_local_path(input)
       ELSE IF starts_with(input, HttpScheme) \/ starts_with(input, HttpsScheme)
            THEN parse_url(input)
       ELSE IF starts_with(input, GitAt) THEN parse_git_url(input)
       ELSE parse_github_shorthand(input)

(***************************************************************************)
(* commands/install.rs : fetch_available and install_skills                *)
(* The filesystem of the model holds one skill directory outside the       *)
(* install locations (SourcePath): it is where a skill that discovery      *)
(* finds lives, in the clone or under the user's local path.  params holds *)
(* the InstallParams and link_ok, whether the OS lets links be created;    *)
(* env is what                                                             *)
(* the commands meet outside the install locations and lock files:         *)
(*   clone_ok       clone_repo_with_progress succeeds                      *)
(*   search_exists  the search path (root joined with subpath) exists      *)
(*   tree, listing  the manifests below the search path                    *)
(*   remote_hash    what fetch_skill_folder_hash ends up with ("" = none)  *)
(***************************************************************************)
AppError(kind) == [ok |-> FALSE, err |-> kind]

\* discover_skills with its search-path check
discover_skills_at(search_exists, tree, listing, options) ==
    IF ~search_exists THEN AppError("PathNotFound")
    ELSE discover_skills(tree, listing, options)

\* DiscoveredSkill.path: the directory of a skill discovery found
skill_dir_on_disk(skill) == SourcePath

\* AgentType::get_universal_agents(), in registry order
get_universal_agents == SelectSeq(all_agents, is_universal)

\* get_owner_repo: Option<String>
get_owner_repo(parsed) ==
    IF parsed.source_type = "github"
    THEN LET path == trim_end_matches(slice_from(parsed.url, Len(GithubBase)), DotGit)
             parts == split(path, "/")
         IN IF Len(parts) >= 2 THEN Some(parts[1] \o <<"/">> \o parts[2]) ELSE None
    ELSE IF parsed.source_type = "gitlab"
    THEN Some(trim_end_matches(
                trim_start_matches(Url_parse(parsed.url).path, "/"), DotGit))
    ELSE None

\* step 5: params.agents followed by the universal agents it lacks
RECURSIVE with_universal_agents(_, _)
with_universal_agents(target_agents, i) ==
    IF i > Len(get_universal_agents) THEN target_agents
    ELSE with_universal_agents(
            IF \E k \in 1..Len(target_agents) :
                  target_agents[k] = get_universal_agents[i]
            THEN target_agents
            ELSE Append(target_agents, get_universal_agents[i]),
            i + 1)

\* a `let` binding: body applied to the value of v, which is computed once
bind(v, body(_)) == CHOOSE out \in {body(x) : x \in {v}} : TRUE

\* the pushes one InstallResult causes in the inner loop of step 6
push_outcome(acc, result) ==
    IF result.success
    THEN [acc EXCEPT
            !.successful = Append(@, result),
            !.symlink_fallback_agents =
               IF /\ result.symlink_failed
                  /\ \A k \in 1..Len(@) : @[k] # result.agent
               THEN Append(@, result.agent) ELSE @]
    ELSE [acc EXCEPT !.failed = Append(@, result)]

NoOutcomes ==
    [successful |-> <<>>, failed |-> <<>>, symlink_fallback_agents |-> <<>>]

\* the inner loop of step 6 with a failed outcome ending the loop
RECURSIVE install_for_agents_until_failure(_, _, _, _, _, _, _)
install_for_agents_until_failure(f, acc, skill, target_agents, i, params, link_ok) ==
    IF i > Len(target_agents) THEN [ok |-> TRUE, fs |-> f, acc |-> acc]
    ELSE IF target_agents[i] \notin AgentType
    THEN [ok |-> FALSE, fs |-> f, acc |-> acc]
    ELSE LET r == install_skill_for_agent(f, skill_dir_on_disk(skill),
                     skill.name, target_agents[i], params.scope,
                     params.project_path, params.mode, link_ok)
             result == [skill_name |-> skill.name, agent |-> target_agents[i],
                        success |-> r.result.success, path |-> r.result.path,
                        symlink_failed |-> r.result.symlink_failed]
         IN IF ~result.success
            THEN [ok |-> TRUE, fs |-> r.fs,
                  acc |-> [acc EXCEPT !.failed = Append(@, result)]]
            ELSE install_for_agents_until_failure(r.fs,
                    [acc EXCEPT !.successful = Append(@, result)],
                    skill, target_agents, i + 1, params, link_ok)

\* the inner loop of step 6, from the i-th target agent on; returns
\* [ok, fs, acc]: ok is FALSE when an agent string does not parse
\* (InvalidAgent leaves the command through `?`)
RECURSIVE install_for_agents(_, _, _, _, _, _, _)
install_for_agents(f, acc, skill, target_agents, i, params, link_ok) ==
    IF i > Len(target_agents) THEN [ok |-> TRUE, fs |-> f, acc |-> acc]
    ELSE IF target_agents[i] \notin AgentType
    THEN [ok |-> FALSE, fs |-> f, acc |-> acc]
    ELSE bind(install_skill_for_agent(f, skill_dir_on_disk(skill),
                 skill.name, target_agents[i], params.scope,
                 params.project_path, params.mode, link_ok),
              LAMBDA r :
                 bind(push_outcome(acc,
                         [skill_name |-> skill.name, agent |-> target_agents[i],
                          success |-> r.result.success, path |-> r.result.path,
                          symlink_failed |-> r.result.symlink_failed]),
                      LAMBDA acc1 :
                         install_for_agents(r.fs, acc1, skill, target_agents,
                                            i + 1, params, link_ok)))

\* the outer loop of step 6, from the j-th selected skill on
RECURSIVE install_selected(_, _, _, _, _, _, _)
install_selected(f, acc, selected_skills, j, target_agents, params, link_ok) ==
    IF j > Len(selected_skills) THEN [ok |-> TRUE, fs |-> f, acc |-> acc]
    ELSE bind(install_for_agents(f, acc, selected_skills[j], target_agents,
                                 1, params, link_ok),
              LAMBDA r :
                 IF ~r.ok THEN r
                 ELSE install_selected(r.fs, r.acc, selected_skills, j + 1,
                                       target_agents, params, link_ok))

\* the digest compute_skill_folder_hash(install_dir).unwrap_or_default()
\* records: the directory's files stand for it ("" when it cannot be read)
installed_hash(f, install_dir) ==
    IF is_dir(f, install_dir)
    THEN resolve(f, install_dir, MaxLinkHops).files
    ELSE ""

\* step 7 for the j-th selected skill on; returns <<lock_file, local_file>>
RECURSIVE write_locks(_, _, _, _, _, _, _, _, _, _)
write_locks(f, lockf, localf, legacyf, t, selected_skills, j, acc, parsed, cmd) ==
    IF j > Len(selected_skills) THEN <<lockf, localf>>
    ELSE LET skill == selected_skills[j]
             installed == \E k \in 1..Len(acc.successful) :
                             acc.successful[k].skill_name = skill.name
             owner_repo == get_owner_repo(parsed)
             skill_folder_hash ==
                IF parsed.source_type = "github" /\ owner_repo # None
                THEN cmd.env.remote_hash ELSE ""
             source == IF owner_repo # None THEN unwrap(owner_repo)
                       ELSE cmd.params.source
             skill_path == Some(skill.path)
             install_dir == join(canonical_skills_dir(FALSE,
                                    unwrap_or_dot(cmd.params.project_path)),
                                 sanitize_name(skill.name))
             entry == [source |-> source, source_type |-> parsed.source_type,
                       computed_hash |-> installed_hash(f, install_dir),
                       remote_hash |-> IF skill_folder_hash = "" THEN None
                                       ELSE Some(skill_folder_hash),
                       skill_path |-> skill_path]
         IN IF ~installed
            THEN write_locks(f, lockf, localf, legacyf, t, selected_skills,
                             j + 1, acc, parsed, cmd)
            ELSE IF cmd.params.scope = "global"
            THEN write_locks(f,
                    add_skill_to_lock(lockf, t, skill.name, source,
                                      parsed.source_type, parsed.url,
                                      skill_path, skill_folder_hash),
                    localf, legacyf, t, selected_skills, j + 1, acc, parsed, cmd)
            ELSE IF cmd.params.project_path # None
            THEN write_locks(f, lockf,
                    add_skill_to_local_lock(localf, legacyf, skill.name, entry),
                    legacyf, t, selected_skills, j + 1, acc, parsed, cmd)
            ELSE write_locks(f, lockf, localf, legacyf, t, selected_skills,
                             j + 1, acc, parsed, cmd)

\* save_selected_agents: the store read (empty when that fails) and written
\* back; the last_selected_agents field itself is not part of the model's
\* store
save_selected_agents(file, agents) ==
    LET r == read_skill_lock(file)
    IN write_skill_lock(IF r.ok THEN r.lock ELSE SkillLockFile_empty)

\* install_skills_inner with discovery left until the skills are installed
\* (the search path is only looked at after step 6)
install_skills_discovering_late(f, lockf, localf, legacyf, t, cmd) ==
    LET params == cmd.params
        env == cmd.env
        unchanged(result) ==
           [fs |-> f, lock_file |-> lockf, local_file |-> localf, result |-> result]
        parsed == parse_source(params.source)
        target_agents == with_universal_agents(params.agents, 1)
        guess == [name |-> CHOOSE n \in params.skills : TRUE,
                  path |-> <<>>, is_internal |-> FALSE]
        loop == install_selected(f, NoOutcomes, <<guess>>, 1, target_agents,
                                 params, params.link_ok)
        discovered == discover_skills_at(env.search_exists, env.tree, env.listing,
                         [include_internal |-> TRUE, full_depth |-> FALSE,
                          env |-> env.internal_env])
    IN IF ~parsed.ok THEN unchanged(AppError("InvalidSource"))
       ELSE IF parsed.source_type # "local" /\ ~env.clone_ok
       THEN unchanged(AppError("CloneFailed"))
       ELSE IF params.skills = {} THEN unchanged(AppError("NoSkillsFound"))
       ELSE IF ~loop.ok
       THEN [fs |-> loop.fs, lock_file |-> lockf, local_file |-> localf,
             result |-> AppError("InvalidAgent")]
       ELSE [fs |-> loop.fs, lock_file |-> lockf, local_file |-> localf,
             result |-> IF discovered.ok
                        THEN [ok |-> TRUE, successful |-> loop.acc.successful,
                              failed |-> loop.acc.failed,
                              symlink_fallback_agents |->
                                 loop.acc.symlink_fallback_agents,
                              target_agents |-> target_agents]
                        ELSE AppError("PathNotFound")]

\* returns [fs, lock_file, local_file, result]; result is Ok(InstallResults)
\* (with the target agents of step 5 kept for reference) or Err
install_skills_inner(f, lockf, localf, legacyf, t, cmd) ==
    LET params == cmd.params
        env == cmd.env
        unchanged(result) ==
           [fs |-> f, lock_file |-> lockf, local_file |-> localf, result |-> result]
        \* steps 6 to 8
        install(parsed, selected_skills, target_agents) ==
           bind(install_selected(f, NoOutcomes, selected_skills, 1,
                                 target_agents, params, params.link_ok),
                LAMBDA loop :
                   IF ~loop.ok
                   THEN [fs |-> loop.fs, lock_file |-> lockf,
                         local_file |-> localf,
                         result |-> AppError("InvalidAgent")]
                   ELSE bind(IF loop.acc.successful # <<>>
                             THEN write_locks(loop.fs, lockf, localf, legacyf, t,
                                              selected_skills, 1, loop.acc,
                                              parsed, cmd)
                             ELSE <<lockf, localf>>,
                             LAMBDA locks :
                                [fs |-> loop.fs,
                                 lock_file |->
                                    save_selected_agents(locks[1], target_agents),
                                 local_file |-> locks[2],
                                 result |->
                                    [ok |-> TRUE,
                                     successful |-> loop.acc.successful,
                                     failed |-> loop.acc.failed,
                                     symlink_fallback_agents |->
                                        loop.acc.symlink_fallback_agents,
                                     target_agents |-> target_agents]]))
        \* steps 3 to 5
        select(parsed) ==
           bind(discover_skills_at(env.search_exists, env.tree, env.listing,
                   [include_internal |-> TRUE, full_depth |-> FALSE,
                    env |-> env.internal_env]),
                LAMBDA discovered :
                   IF ~discovered.ok THEN unchanged(AppError("PathNotFound"))
                   ELSE bind(SelectSeq(discovered.skills,
                                       LAMBDA s : s.name \in params.skills),
                             LAMBDA selected_skills :
                                IF selected_skills = <<>>
                                THEN unchanged(AppError("NoSkillsFound"))
                                ELSE bind(with_universal_agents(params.agents, 1),
                                          LAMBDA target_agents :
                                             install(parsed, selected_skills,
                                                     target_agents))))
    IN bind(parse_source(params.source),
            LAMBDA parsed :
               IF ~parsed.ok THEN unchanged(AppError("InvalidSource"))
               ELSE IF parsed.source_type # "local" /\ ~env.clone_ok
               THEN unchanged(AppError("CloneFailed"))
               ELSE select(parsed))

\* returns the FetchResult or Err; nothing on disk is written
fetch_available_inner(source, env) ==
    LET parsed == parse_source(source)
        discovered == discover_skills_at(env.search_exists, env.tree, env.listing,
                         [include_internal |-> parsed.skill_filter # None,
                          full_depth |-> FALSE, env |-> env.internal_env])
    IN IF ~parsed.ok THEN AppError("InvalidSource")
       ELSE IF parsed.source_type \in {"direct-url", "well-known"}
       THEN [ok |-> TRUE, source_type |-> parsed.source_type,
             source_url |-> parsed.url, skill_filter |-> parsed.skill_filter,
             skills |-> <<>>]
       ELSE IF parsed.source_type # "local" /\ ~env.clone_ok
       THEN AppError("CloneFailed")
       ELSE IF ~discovered.ok THEN AppError("PathNotFound")
       ELSE [ok |-> TRUE, source_type |-> parsed.source_type,
             source_url |-> parsed.url, skill_filter |-> parsed.skill_filter,
             skills |-> discovered.skills]

(***************************************************************************)
(* core/installer.rs: copy_skill_files on a directory tree                 *)
(* A directory is [kind |-> "dir", entries |-> e], e a function from the   *)
(* names it holds to files and directories, so that the loop over the      *)
(* entries and the recursion can be followed entry by entry.               *)
(***************************************************************************)
Folder(entries) == [kind |-> "dir", entries |-> entries]
EmptyFolder == Folder([n \in {} |-> NoNode])

\* the entry a directory holds under a name, NoNode when it holds none
entry_of(dir, n) == IF n \in DOMAIN dir.entries THEN dir.entries[n] ELSE NoNode

\* copy_skill_files with EXCLUDE_FILES tested on files only
RECURSIVE copy_skill_files_excluding_files_only(_, _)
copy_skill_files_excluding_files_only(src, dst) ==
    IF dst.kind = "file" \/ src.kind # "dir" THEN [ok |-> FALSE, dst |-> dst]
    ELSE LET base == IF dst.kind = "none" THEN EmptyFolder ELSE dst
             copied == {n \in DOMAIN src.entries :
                          /\ ~(src.entries[n].kind = "file" /\ n \in EXCLUDE_FILES)
                          /\ ~starts_with_underscore(n)
                          /\ ~(src.entries[n].kind = "dir" /\ n \in EXCLUDE_DIRS)}
             sub(n) == IF src.entries[n].kind = "dir"
                       THEN copy_skill_files_excluding_files_only(
                               src.entries[n], entry_of(base, n))
                       ELSE [ok |-> entry_of(base, n).kind # "dir",
                             dst |-> src.entries[n]]
         IN IF \E n \in copied : ~sub(n).ok THEN [ok |-> FALSE, dst |-> base]
            ELSE [ok |-> TRUE,
                  dst |-> Folder([n \in DOMAIN base.entries \cup copied |->
                             IF n \in copied THEN sub(n).dst
                             ELSE base.entries[n]])]

\* src and dst are what is at the two paths (NoNode: nothing); returns
\* [ok, dst], dst being what is at the destination afterwards.  When an
\* entry fails (`?`) what was copied before it depends on the order
\* read_dir lists the entries in; that state is given as the directory
\* before the loop.
RECURSIVE copy_skill_files_tree(_, _)
copy_skill_files_tree(src, dst) ==
    \* create_dir_all(dst), read_dir(src)
    IF dst.kind = "file" \/ src.kind # "dir" THEN [ok |-> FALSE, dst |-> dst]
    ELSE LET base == IF dst.kind = "none" THEN EmptyFolder ELSE dst
             copied == {n \in DOMAIN src.entries :
                          /\ n \notin EXCLUDE_FILES
                          /\ ~starts_with_underscore(n)
                          /\ ~(src.entries[n].kind = "dir" /\ n \in EXCLUDE_DIRS)}
             sub(n) == IF src.entries[n].kind = "dir"
                       THEN copy_skill_files_tree(src.entries[n], entry_of(base, n))
                       \* fs::copy cannot replace a directory
                       ELSE [ok |-> entry_of(base, n).kind # "dir",
                             dst |-> src.entries[n]]
         IN IF \E n \in copied : ~sub(n).ok THEN [ok |-> FALSE, dst |-> base]
            ELSE [ok |-> TRUE,
                  dst |-> Folder([n \in DOMAIN base.entries \cup copied |->
                             IF n \in copied THEN sub(n).dst
                             ELSE base.entries[n]])]

(***************************************************************************)
(* core/github_api.rs, commands/update.rs                                  *)
(* A response to the Trees API request for one branch is Unreachable (the  *)
(* request failed or the status is not a success), Garbled (the body is    *)
(* not a TreesResponse) or a TreesResponse.                                *)
(***************************************************************************)
Unreachable == [kind |-> "unreachable"]
Garbled == [kind |-> "garbled"]
TreesResponse(sha, tree) == [kind |-> "tree", sha |-> sha, tree |-> tree]
TreeEntry(path, entry_type, sha) ==
    [path |-> path, entry_type |-> entry_type, sha |-> sha]

SkillMdFile == <<"S","K","I","L","L",".","M","D">>

\* str::replace('\\', "/")
replace_backslashes(s) == [i \in 1..Len(s) |-> IF s[i] = "\\" THEN "/" ELSE s[i]]

\* the folder fetch_skill_folder_hash looks for
folder_path_of(skill_path) ==
    LET normal == replace_backslashes(skill_path)
        cut == IF ends_with(normal, <<"/">> \o SkillMdFile)
               THEN slice_to(normal, Len(normal) - 9)
               ELSE IF ends_with(normal, SkillMdFile)
               THEN slice_to(normal, Len(normal) - 8)
               ELSE normal
    IN trim_end_matches(cut, <<"/">>)

\* the loop over data.tree, from its i-th entry on: Option<String>
RECURSIVE find_tree_entry(_, _, _)
find_tree_entry(tree, folder_path, i) ==
    IF i > Len(tree) THEN None
    ELSE IF tree[i].entry_type = "tree" /\ tree[i].path = folder_path
    THEN Some(tree[i].sha)
    ELSE find_tree_entry(tree, folder_path, i + 1)

\* the loop over the branches, from the i-th on; responses gives the
\* response to the request for each branch
RECURSIVE fetch_from_branches(_, _, _, _)
fetch_from_branches(responses, branches, folder_path, i) ==
    IF i > Len(branches) THEN None
    ELSE LET resp == responses[branches[i]]
             found == find_tree_entry(resp.tree, folder_path, 1)
         IN IF resp.kind # "tree"
            THEN fetch_from_branches(responses, branches, folder_path, i + 1)
            ELSE IF folder_path = <<>> THEN Some(resp.sha)
            ELSE IF found # None THEN found
            ELSE fetch_from_branches(responses, branches, folder_path, i + 1)

\* Result<Option<String>, AppError> as [ok, hash]; no path of the function
\* returns Err
fetch_skill_folder_hash(responses, skill_path, git_ref) ==
    [ok |-> TRUE,
     hash |-> fetch_from_branches(responses,
                 IF git_ref # None THEN <<unwrap(git_ref)>>
                 ELSE <<"main", "master">>,
                 folder_path_of(skill_path), 1)]

\* step 3: the entries check_updates looks at
is_checked(entry) ==
    /\ entry.source_type = "github"
    /\ entry.skill_folder_hash # ""
    /\ entry.skill_path # None
    /\ unwrap(entry.skill_path) # <<>>

SkillUpdateInfo(name, source, has_update) ==
    [name |-> name, source |-> source, has_update |-> has_update]

\* check_updates_inner with a folder that is not found reported as changed
check_updates_flagging_missing(lock_read, remote) ==
    IF ~lock_read.ok THEN [ok |-> FALSE, results |-> {}]
    ELSE [ok |-> TRUE,
          results |->
             {SkillUpdateInfo(name, lock_read.lock.skills[name].source,
                 fetch_skill_folder_hash(remote[name],
                    unwrap(lock_read.lock.skills[name].skill_path), None).hash
                 # Some(lock_read.lock.skills[name].skill_folder_hash)) :
                name \in {n \in DOMAIN lock_read.lock.skills :
                             is_checked(lock_read.lock.skills[n])}}]

\* lock_read is what read_scoped_lock returned, remote[name] the responses
\* to the requests made for that skill; returns [ok, results], results
\* being the SkillUpdateInfo pushed (their order is the HashMap's)
check_updates_inner(lock_read, remote) ==
    IF ~lock_read.ok THEN [ok |-> FALSE, results |-> {}]
    ELSE LET skills == lock_read.lock.skills
             fetched(name) ==
                fetch_skill_folder_hash(remote[name],
                                        unwrap(skills[name].skill_path), None)
             answered == {name \in DOMAIN skills :
                             is_checked(skills[name]) /\ fetched(name).ok}
         IN [ok |-> TRUE,
             results |->
                {SkillUpdateInfo(name, skills[name].source,
                    IF fetched(name).hash # None
                    THEN unwrap(fetched(name).hash) # skills[name].skill_folder_hash
                    ELSE FALSE) : name \in answered}]

(***************************************************************************)
(* core/local_lock.rs: compute_skill_folder_hash                           *)
(* Entry names and file contents are sequences of characters; a file is    *)
(* [kind |-> "file", content |-> c].  The digest is given as the bytes     *)
(* fed to the hasher, in order: SHA-256 is taken to map different inputs   *)
(* to different digests, and equal inputs give equal digests.              *)
(***************************************************************************)
File(content) == [kind |-> "file", content |-> content]

DotGitName == <<".","g","i","t">>
NodeModulesName == <<"n","o","d","e","_","m","o","d","u","l","e","s">>

\* the characters of the model in byte order
ByteOrder == <<".", "/", "_", "a", "b", "d", "e", "g", "i", "l", "m", "n", "o",
               "s", "t", "u">>
byte_of(c) == CHOOSE i \in 1..Len(ByteOrder) : ByteOrder[i] = c

\* String's Ord: byte-wise lexicographic
RECURSIVE str_less_than(_, _)
str_less_than(a, b) ==
    IF b = <<>> THEN FALSE
    ELSE IF a = <<>> THEN TRUE
    ELSE IF a[1] # b[1] THEN byte_of(a[1]) < byte_of(b[1])
    ELSE str_less_than(Tail(a), Tail(b))

\* the path of an entry below the directory reached by `relative`
child_path(relative, name) ==
    IF relative = <<>> THEN name ELSE relative \o <<"/">> \o name

\* collect_files with nothing skipped
RECURSIVE collect_all_files(_, _)
collect_all_files(current_dir, relative) ==
    UNION {IF current_dir.entries[name].kind = "dir"
           THEN collect_all_files(current_dir.entries[name],
                                  child_path(relative, name))
           ELSE {<<child_path(relative, name), current_dir.entries[name].content>>} :
              name \in DOMAIN current_dir.entries}

\* the (relative path, content) pairs pushed for the directory reached by
\* `relative` from base_dir
RECURSIVE collect_files(_, _)
collect_files(current_dir, relative) ==
    UNION {IF current_dir.entries[name].kind = "dir"
           THEN collect_files(current_dir.entries[name], child_path(relative, name))
           ELSE {<<child_path(relative, name), current_dir.entries[name].content>>} :
              name \in DOMAIN current_dir.entries \ {DotGitName, NodeModulesName}}

\* files.sort_by(|a, b| a.0.cmp(&b.0))
RECURSIVE sort_by_path(_)
sort_by_path(files) ==
    IF files = {} THEN <<>>
    ELSE LET first == CHOOSE f \in files :
                         \A g \in files \ {f} : str_less_than(f[1], g[1])
         IN <<first>> \o sort_by_path(files \ {first})

\* hasher.update(relative_path), hasher.update(content) for each file
RECURSIVE hasher_input(_, _)
hasher_input(files, i) ==
    IF i > Len(files) THEN <<>>
    ELSE files[i][1] \o files[i][2] \o hasher_input(files, i + 1)

compute_skill_folder_hash(skill_dir) ==
    hasher_input(sort_by_path(collect_files(skill_dir, <<>>)), 1)

(***************************************************************************)
(* core/plugin_manifest.rs                                                 *)
(* A path is the sequence of its components, "." and ".." included as      *)
(* written; an absolute path starts at "/".  The disk is the set of the    *)
(* directories that exist, each by its resolved absolute path (links are   *)
(* not modelled).                                                          *)
(***************************************************************************)
\* path.starts_with("./"): the string begins with "." and a separator
is_valid_relative_path(path) == Len(path) >= 2 /\ path[1] = "."

\* Path::canonicalize from the directory `resolved` on: Option<PathBuf>
RECURSIVE canonicalize_from(_, _, _)
canonicalize_from(disk, resolved, rest) ==
    IF rest = <<>> THEN Some(resolved)
    ELSE IF Head(rest) = "." THEN canonicalize_from(disk, resolved, Tail(rest))
    ELSE IF Head(rest) = ".."
    THEN canonicalize_from(disk,
            IF resolved = <<>> THEN <<>>
            ELSE SubSeq(resolved, 1, Len(resolved) - 1),
            Tail(rest))
    ELSE IF Append(resolved, Head(rest)) \in disk
    THEN canonicalize_from(disk, Append(resolved, Head(rest)), Tail(rest))
    ELSE None

\* Path::canonicalize of an absolute path; None when a component is missing
canonicalize(disk, path) == canonicalize_from(disk, <<>>, path)

\* Path::starts_with, and str::starts_with on paths written with '/': for a
\* child made by joining onto the parent the two agree
path_starts_with(child, parent) ==
    Len(child) >= Len(parent) /\ SubSeq(child, 1, Len(parent)) = parent

is_contained_in(disk, child, parent) ==
    IF canonicalize(disk, child) # None /\ canonicalize(disk, parent) # None
    THEN path_starts_with(unwrap(canonicalize(disk, child)),
                          unwrap(canonicalize(disk, parent)))
    ELSE path_starts_with(child, parent)

\* normalize_path of an absolute path
normalize_path(disk, path) ==
    IF canonicalize(disk, path) # None THEN unwrap(canonicalize(disk, path))
    ELSE path

\* the inner loop over plugin.skills, from the i-th on
RECURSIVE group_skills(_, _, _, _, _, _, _)
group_skills(disk, base_path, plugin_base, skills, i, plugin_name, groupings) ==
    IF i > Len(skills) THEN groupings
    ELSE LET skill_dir == plugin_base \o skills[i]
         IN group_skills(disk, base_path, plugin_base, skills, i + 1, plugin_name,
               IF /\ is_valid_relative_path(skills[i])
                  /\ is_contained_in(disk, skill_dir, base_path)
               THEN map_insert(groupings, normalize_path(disk, skill_dir),
                               plugin_name)
               ELSE groupings)

\* a plugin's source: none, a string, or an object (a remote source)
NoSourceField == [kind |-> "none"]
SourceString(path) == [kind |-> "string", path |-> path]
SourceObject == [kind |-> "object"]

\* the loop over manifest.plugins, from the i-th on
RECURSIVE group_plugins(_, _, _, _, _, _)
group_plugins(disk, base_path, plugin_root, plugins, i, groupings) ==
    IF i > Len(plugins) THEN groupings
    ELSE LET plugin == plugins[i]
             plugin_base ==
                (IF plugin_root # None THEN base_path \o unwrap(plugin_root)
                 ELSE base_path)
                \o (IF plugin.source.kind = "string" THEN plugin.source.path
                    ELSE <<>>)
             skipped_plugin ==
                \/ plugin.name = None
                \/ plugin.source.kind = "object"
                \/ /\ plugin.source.kind = "string"
                   /\ ~is_valid_relative_path(plugin.source.path)
                \/ ~is_contained_in(disk, plugin_base, base_path)
         IN group_plugins(disk, base_path, plugin_root, plugins, i + 1,
               IF skipped_plugin THEN groupings
               ELSE group_skills(disk, base_path, plugin_base, plugin.skills, 1,
                                 unwrap(plugin.name), groupings))

\* marketplace and plugin are the two manifests as parsed, None when the
\* file is missing or not parsable; returns the map from skill directory
\* to plugin name
get_plugin_groupings(disk, base_path, marketplace, plugin) ==
    LET from_marketplace ==
           IF marketplace = None THEN EmptyMap
           ELSE IF /\ unwrap(marketplace).plugin_root # None
                   /\ ~is_valid_relative_path(
                          unwrap(unwrap(marketplace).plugin_root))
           THEN EmptyMap
           ELSE group_plugins(disk, base_path, unwrap(marketplace).plugin_root,
                              unwrap(marketplace).plugins, 1, EmptyMap)
    IN IF plugin = None THEN from_marketplace
       ELSE IF unwrap(plugin).name = None \/ unwrap(plugin).skills = None
       THEN from_marketplace
       ELSE group_skills(disk, base_path, base_path,
                         unwrap(unwrap(plugin).skills), 1,
                         unwrap(unwrap(plugin).name), from_marketplace)

(***************************************************************************)
(* The materializer as a state machine.  Calls are served one at a time    *)
(* (spec section 5): a call runs to completion and leaves its arguments   *)
(* and returned value in `last` and the state it started from in `pre`;    *)
(* Deliver hands the result to the caller, after which the next call can   *)
(* start.                                                                  *)
(***************************************************************************)
\* <<scope, project_path>> of a call; project_path is not read in Global scope
ScopeArgs == {<<"global", None>>, <<"project", None>>, <<"project", Some("/proj")>>}

\* <<mode, link_ok>>; link_ok is not read in Copy mode
ModeArgs == {<<"symlink", TRUE>>, <<"symlink", FALSE>>, <<"copy", TRUE>>}

\* what AgentType::detect_installed() can return on the machines modelled
DetectedSets == {{}, {"cursor"}}

EmptyFs == [p \in AllPaths |->
              IF p = SourcePath THEN Dir(SourceFiles) ELSE NoNode]

Snapshot == [fs |-> fs, lock_file |-> lock_file, local_file |-> local_file,
             legacy_file |-> legacy_file]

Idle == [op |-> "none"]
\* sz and dz outside the specifications that use them
Unused == [stage |-> "none"]
NoSnapshot == [op |-> "none"]
Ready == last = Idle

\* a directory discover_skills can have found a skill in: it holds a manifest
is_skill_dir(f, p) ==
    is_dir(f, p) /\ <<"SKILL.md">> \in resolve(f, p, MaxLinkHops).files

\* lock entries written by the store actions
SampleSource == "owner/repo"
SampleUrl == "https://github.com/owner/repo.git"
SampleSkillPath == Some("skills/mys/SKILL.md")

Init ==
    /\ fs = EmptyFs
    /\ lock_file = AbsentFile
    /\ local_file = AbsentFile
    /\ legacy_file = AbsentFile
    /\ now = 0
    /\ last = Idle
    /\ pre = NoSnapshot
    /\ sz = Unused
    /\ dz = Unused
    /\ pure = Unused

\* one call of install_skill_for_agent with the skill at skill_path
Install(skill_path) ==
    \E skill_name \in SkillNames, agent \in AgentType, sa \in ScopeArgs,
       ma \in ModeArgs :
       LET r == install_skill_for_agent(fs, skill_path, skill_name, agent,
                                        sa[1], sa[2], ma[1], ma[2])
       IN /\ Ready
          /\ fs' = r.fs
          /\ last' = [op |-> "install", skill_path |-> skill_path,
                      skill_name |-> skill_name, agent |-> agent,
                      scope |-> sa[1], project_path |-> sa[2],
                      mode |-> ma[1], link_ok |-> ma[2], result |-> r.result]
          /\ pre' = Snapshot
          /\ UNCHANGED <<lock_file, local_file, legacy_file, now, sz, dz, pure>>

\* install of a skill fetched into the clone directory
InstallSkillForAgent == Install(SourcePath)

RemoveSkill ==
    \E skill_name \in SkillNames, sa \in ScopeArgs, full_removal \in BOOLEAN,
       target_agents \in {None} \cup {Some(S) : S \in SUBSET AgentType},
       detected \in DetectedSets :
       LET r == remove_skill(fs, lock_file, local_file, legacy_file, skill_name,
                             sa[1], sa[2], full_removal, target_agents,
                             detected)
       IN /\ Ready
          /\ (target_agents # None => detected = {})
          /\ fs' = r.fs
          /\ lock_file' = r.lock_file
          /\ local_file' = r.local_file
          /\ last' = [op |-> "remove", skill_name |-> skill_name,
                      scope |-> sa[1], project_path |-> sa[2],
                      full_removal |-> full_removal, agents |-> r.agents,
                      result |-> r.result]
          /\ pre' = Snapshot
          /\ UNCHANGED <<legacy_file, now, sz, dz, pure>>

AddSkillToLock ==
    \E skill_name \in SkillNames, skill_folder_hash \in {"tree1"} :
       /\ Ready
       /\ lock_file' = add_skill_to_lock(lock_file, now, skill_name,
                          SampleSource, "github", SampleUrl, SampleSkillPath,
                          skill_folder_hash)
       /\ last' = [op |-> "add_skill_to_lock", skill_name |-> skill_name,
                   source |-> SampleSource, source_type |-> "github",
                   source_url |-> SampleUrl, skill_path |-> SampleSkillPath,
                   skill_folder_hash |-> skill_folder_hash, at |-> now]
       /\ pre' = Snapshot
       /\ UNCHANGED <<fs, local_file, legacy_file, now, sz, dz, pure>>

AddSkillToLocalLock ==
    \E skill_name \in SkillNames :
       LET entry == [source |-> SampleSource, source_type |-> "github",
                     computed_hash |-> "sha-1", remote_hash |-> Some("tree1"),
                     skill_path |-> SampleSkillPath]
       IN /\ Ready
          /\ local_file' = add_skill_to_local_lock(local_file, legacy_file,
                                                   skill_name, entry)
          /\ last' = [op |-> "add_skill_to_local_lock",
                      skill_name |-> skill_name, entry |-> entry]
          /\ pre' = Snapshot
          /\ UNCHANGED <<fs, lock_file, legacy_file, now, sz, dz, pure>>

\* the caller takes the returned value
Deliver ==
    /\ ~Ready
    /\ last' = Idle
    /\ pre' = NoSnapshot
    /\ UNCHANGED <<fs, lock_file, local_file, legacy_file, now, sz, dz, pure>>

\* installs and removals on the filesystem; no lock entry is ever recorded,
\* so both lock files stay as they start
Next ==
    \/ InstallSkillForAgent
    \/ RemoveSkill
    \/ Deliver

Spec == Init /\ [][Next]_vars

(***************************************************************************)
(* The lock stores as a state machine: files found on disk at start (none, *)
(* unreadable, unparsable, written by an older or newer version, holding   *)
(* entries of this or another skill), a clock, and the store operations    *)
(* together with remove_skill.  Nothing is installed on the filesystem.    *)
(***************************************************************************)
\* the latest clock reading modelled
MaxTime == 2

OtherSkill == <<"o", "t", "h", "e", "r">>

\* an entry written before the run started
StoredEntry == [source |-> "old/repo", source_type |-> "github",
                source_url |-> "https://github.com/old/repo.git",
                skill_path |-> None, skill_folder_hash |-> "tree0",
                installed_at |-> 0, updated_at |-> 0]

StoredLocalEntry == [source |-> "old/repo", source_type |-> "github",
                     computed_hash |-> "sha-0", remote_hash |-> None,
                     skill_path |-> None]

StoredSkillMaps(entry) ==
    {EmptyMap} \cup {map_insert(EmptyMap, n, entry) : n \in SkillNames \cup {OtherSkill}}

StoredLockFiles ==
    {AbsentFile, UnreadableFile, UnparsableFile}
    \cup {JsonFile([version |-> v, skills |-> m]) :
             v \in {CURRENT_VERSION - 1, CURRENT_VERSION, CURRENT_VERSION + 1},
             m \in StoredSkillMaps(StoredEntry)}

StoredLocalFiles ==
    {AbsentFile, UnparsableFile}
    \cup {JsonFile([version |-> v, skills |-> m]) :
             v \in {LOCAL_LOCK_VERSION - 1, LOCAL_LOCK_VERSION},
             m \in StoredSkillMaps(StoredLocalEntry)}

StoredLegacyFiles ==
    {AbsentFile}
    \cup {JsonFile([version |-> CURRENT_VERSION, skills |-> m]) :
             m \in StoredSkillMaps(StoredEntry) \ {EmptyMap}}

\* at most one of the three files is something else than absent at the start,
\* or the project has both its files
InitLock ==
    /\ fs = EmptyFs
    /\ lock_file \in StoredLockFiles
    /\ local_file \in StoredLocalFiles
    /\ legacy_file \in StoredLegacyFiles
    /\ lock_file = AbsentFile \/ (local_file = AbsentFile /\ legacy_file = AbsentFile)
    /\ now = 0
    /\ last = Idle
    /\ pre = NoSnapshot
    /\ sz = Unused
    /\ dz = Unused
    /\ pure = Unused

\* chrono::Utc::now() moves on between calls
Tick ==
    /\ Ready
    /\ now < MaxTime
    /\ now' = now + 1
    /\ UNCHANGED <<fs, lock_file, local_file, legacy_file, last, pre, sz, dz, pure>>

ReadSkillLock ==
    /\ Ready
    /\ last' = [op |-> "read_skill_lock", result |-> read_skill_lock(lock_file)]
    /\ pre' = Snapshot
    /\ UNCHANGED <<fs, lock_file, local_file, legacy_file, now, sz, dz, pure>>

GetSkillFromLock ==
    \E skill_name \in SkillNames \cup {OtherSkill} :
       /\ Ready
       /\ last' = [op |-> "get_skill_from_lock", skill_name |-> skill_name,
                   result |-> get_skill_from_lock(lock_file, skill_name)]
       /\ pre' = Snapshot
       /\ UNCHANGED <<fs, lock_file, local_file, legacy_file, now, sz, dz, pure>>

GetAllLockedSkills ==
    /\ Ready
    /\ last' = [op |-> "get_all_locked_skills",
                result |-> get_all_locked_skills(lock_file)]
    /\ pre' = Snapshot
    /\ UNCHANGED <<fs, lock_file, local_file, legacy_file, now, sz, dz, pure>>

RemoveSkillFromLock ==
    \E skill_name \in SkillNames :
       LET r == remove_skill_from_lock(lock_file, skill_name)
       IN /\ Ready
          /\ lock_file' = r.file
          /\ last' = [op |-> "remove_skill_from_lock", skill_name |-> skill_name,
                      result |-> [ok |-> r.ok, removed |-> r.removed]]
          /\ pre' = Snapshot
          /\ UNCHANGED <<fs, local_file, legacy_file, now, sz, dz, pure>>

NextLock ==
    \/ Tick
    \/ ReadSkillLock
    \/ GetSkillFromLock
    \/ GetAllLockedSkills
    \/ AddSkillToLock
    \/ RemoveSkillFromLock
    \/ AddSkillToLocalLock
    \/ RemoveSkill
    \/ Deliver

SpecLock == InitLock /\ [][NextLock]_vars

(***************************************************************************)
(* Two install calls in a row on a disk that already holds something at    *)
(* the install locations: up to MaxPlanted of them hold a file, a          *)
(* directory (stale content, or a skill the user keeps there), or a link   *)
(* (to the fetched skill, or to a canonical directory).  The skill to      *)
(* install is the fetched one or, for a local source, a skill directory    *)
(* found at an install location.                                           *)
(***************************************************************************)
MaxPlanted == 2

PlantedNodes ==
    {FileNode, Dir({<<"stale.txt">>}), Dir(SourceFiles), Link(SourcePath)}
    \cup {Link(join(canonical_skills_dir(g, "."), n)) :
            g \in BOOLEAN, n \in SanitizedNames}

InitIdem ==
    /\ \E planted \in {S \in SUBSET InstallPaths : Cardinality(S) <= MaxPlanted} :
          \E nodes \in [planted -> PlantedNodes] :
             fs = [p \in AllPaths |->
                     IF p \in planted THEN nodes[p] ELSE EmptyFs[p]]
    /\ lock_file = AbsentFile
    /\ local_file = AbsentFile
    /\ legacy_file = AbsentFile
    /\ now = 0
    /\ last = Idle
    /\ pre = NoSnapshot
    /\ sz = Unused
    /\ dz = Unused
    /\ pure = Unused

\* install from a local source: the skill directory is one discover_skills
\* found at an install location
InstallLocalSkill ==
    \E skill_path \in InstallPaths :
       is_skill_dir(fs, skill_path) /\ Install(skill_path)

\* the same call once more, with the same link-creation outcome
InstallAgain ==
    LET r == install_skill_for_agent(fs, last.skill_path, last.skill_name,
                                     last.agent, last.scope, last.project_path,
                                     last.mode, last.link_ok)
    IN /\ last.op = "install"
       /\ fs' = r.fs
       /\ last' = [last EXCEPT !.op = "install_again", !.result = r.result]
       /\ pre' = Snapshot
       /\ UNCHANGED <<lock_file, local_file, legacy_file, now, sz, dz, pure>>

NextIdem ==
    \/ InstallSkillForAgent
    \/ InstallLocalSkill
    \/ InstallAgain

SpecIdem == InitIdem /\ [][NextIdem]_vars

(***************************************************************************)
(* sanitize_name applied once and once more to its result.  The inputs are *)
(* a run of 'a' around the cut-off length followed by a short tail over    *)
(* letters of both cases, the two trimmed characters, '_' and a blank.     *)
(***************************************************************************)
MaxTail == 2

TailChars == {"b", "B", "-", ".", "_", " "}

Tails == UNION {[1..n -> TailChars] : n \in 0..MaxTail}

RunLengths == {0, 1, NameCutOff - 2, NameCutOff - 1, NameCutOff, NameCutOff + 1}

SanitizeInputs == {[i \in 1..n |-> "a"] \o t : n \in RunLengths, t \in Tails}

InitSanitize ==
    /\ fs = EmptyFs
    /\ lock_file = AbsentFile
    /\ local_file = AbsentFile
    /\ legacy_file = AbsentFile
    /\ now = 0
    /\ last = Idle
    /\ pre = NoSnapshot
    /\ sz \in {[stage |-> "input", name |-> x] : x \in SanitizeInputs}
    /\ dz = Unused
    /\ pure = Unused

SanitizeName ==
    /\ sz.stage = "input"
    /\ sz' = [stage |-> "once", name |-> sz.name, once |-> sanitize_name(sz.name)]
    /\ UNCHANGED <<fs, lock_file, local_file, legacy_file, now, last, pre, dz, pure>>

SanitizeNameAgain ==
    /\ sz.stage = "once"
    /\ sz' = [stage |-> "twice", name |-> sz.name, once |-> sz.once,
              twice |-> sanitize_name(sz.once)]
    /\ UNCHANGED <<fs, lock_file, local_file, legacy_file, now, last, pre, dz, pure>>

NextSanitize ==
    \/ SanitizeName
    \/ SanitizeNameAgain

SpecSanitize == InitSanitize /\ [][NextSanitize]_vars

(***************************************************************************)
(* One discover_skills pass over a tree with up to MaxManifests manifests, *)
(* with the OS listing directories in one order or in the reverse, and     *)
(* INSTALL_INTERNAL_SKILLS set or not.                                     *)
(***************************************************************************)
MaxManifests == 3

Manifests ==
    {BadManifest, SkillManifest("n1", None),
     SkillManifest("n2", Some([internal |-> FALSE])),
     SkillManifest("n1", Some([internal |-> TRUE]))}

DirSet == {ManifestDirs[i] : i \in 1..Len(ManifestDirs)}

Reverse(seq) == [i \in 1..Len(seq) |-> seq[Len(seq) + 1 - i]]

Listings == {ManifestDirs, Reverse(ManifestDirs)}

DiscoverOptions ==
    [include_internal : BOOLEAN, full_depth : BOOLEAN, env : BOOLEAN]

InitDiscover ==
    /\ fs = EmptyFs
    /\ lock_file = AbsentFile
    /\ local_file = AbsentFile
    /\ legacy_file = AbsentFile
    /\ now = 0
    /\ last = Idle
    /\ pre = NoSnapshot
    /\ sz = Unused
    /\ pure = Unused
    /\ \E held \in {S \in SUBSET DirSet : Cardinality(S) <= MaxManifests} :
          \E m \in [held -> Manifests], options \in DiscoverOptions,
             listing \in Listings :
             dz = [stage |-> "input",
                   tree |-> [d \in DirSet |-> IF d \in held THEN m[d] ELSE NoManifest],
                   listing |-> listing, options |-> options]

DiscoverSkills ==
    /\ dz.stage = "input"
    /\ dz' = [stage |-> "done", tree |-> dz.tree, listing |-> dz.listing,
              options |-> dz.options,
              result |-> discover_skills(dz.tree, dz.listing, dz.options)]
    /\ UNCHANGED <<fs, lock_file, local_file, legacy_file, now, last, pre, sz, pure>>

NextDiscover == DiscoverSkills

SpecDiscover == InitDiscover /\ [][NextDiscover]_vars

(***************************************************************************)
(* parse_source applied to one input: a shorthand-like string over a       *)
(* letter, '/' and '@' (with or without a ".git" suffix and surrounding    *)
(* blanks), the two strings of the specification's examples, a short       *)
(* string behind each prefix a rule looks for, or a URL put together from  *)
(* a scheme, a host and a path.                                            *)
(***************************************************************************)
MaxBody == 5

BodyChars == {"a", "/", "@"}

StringsUpTo(chars, n) == UNION {[1..k -> chars] : k \in 0..n}

ShorthandInputs ==
    {lead \o body \o suffix \o lead :
        lead \in {<<>>, <<" ">>},
        body \in StringsUpTo(BodyChars, MaxBody),
        suffix \in {<<>>, DotGit}}

ExampleFilter == <<"a","/","b","@","s","k","i","l","l">>
ExamplePathFilter == <<"a","/","b","/","p","a","t","h","@","2",".","0">>

RulePrefixes ==
    {<<"/">>, <<".","/">>, <<".",".","/">>, <<"C",":","/">>, <<"d",":","\\">>,
     <<"C",":">>, <<".">>, GitAt, <<"g","i","t">>}

PrefixedInputs ==
    {prefix \o body : prefix \in RulePrefixes, body \in StringsUpTo(BodyChars, 3)}

UrlHosts ==
    {<<>>, GithubCom, WwwGithubCom, GitlabCom, <<"x",".">> \o Gitlab \o <<".","i","o">>,
     <<"G","i","t","H","u","b",".","c","o","m">>, <<"x",".","i","o">>}

UrlPaths ==
    {<<>>, <<"/">>, <<"/","a">>, <<"/","a","/","b">>,
     <<"/","a","/","b">> \o DotGit,
     <<"/","a","/","b","/">> \o Tree \o <<"/","m">>,
     <<"/","a","/","b","/">> \o Blob \o <<"/","m","/","p","/">> \o SkillMd,
     <<"/","a","/","b","/","c">>,
     <<"/","a","/","b">> \o TreeMarker \o <<"m">>,
     <<"/","a","/","b">> \o TreeMarker \o <<"m","/","p","/","q">>,
     <<"/","x","/","S","K","I","L","L",".","m","d">>,
     <<"/">> \o SkillMd}

UrlInputs ==
    {HttpScheme, HttpsScheme}
       \cup {scheme \o host \o path :
                scheme \in {HttpScheme, HttpsScheme},
                host \in UrlHosts \ {<<>>}, path \in UrlPaths}

SourceInputs ==
    ShorthandInputs \cup {ExampleFilter, ExamplePathFilter}
       \cup PrefixedInputs \cup UrlInputs

InitSource ==
    /\ fs = EmptyFs
    /\ lock_file = AbsentFile
    /\ local_file = AbsentFile
    /\ legacy_file = AbsentFile
    /\ now = 0
    /\ last = Idle
    /\ pre = NoSnapshot
    /\ sz = Unused
    /\ dz = Unused
    /\ \E input \in SourceInputs : pure = [stage |-> "input", input |-> input]

ParseSource ==
    /\ pure.stage = "input"
    /\ pure' = [stage |-> "parsed", input |-> pure.input,
                result |-> parse_source(pure.input)]
    /\ UNCHANGED <<fs, lock_file, local_file, legacy_file, now, last, pre, sz, dz>>

NextSource == ParseSource

SpecSource == InitSource /\ [][NextSource]_vars

(***************************************************************************)
(* One command on a disk that may already hold an installed skill and an   *)
(* entry the process is not allowed to touch: install_skills or            *)
(* fetch_available with a good or malformed source, a search path that is  *)
(* there or not, a target list with or without an unknown agent string; or *)
(* remove_skill.                                                           *)
(***************************************************************************)
CommandSources == {<<>>, <<"a">>, <<"a","/","b">>, <<".","/","s">>}

CommandAgents ==
    {<<"cursor", "claude-code">>, <<"claude-code", "nope", "cursor">>,
     <<"amp", "claude-code", "cursor">>, <<"nope", "cursor">>}

\* below the search path: one skill in a conventional directory, or nothing
CommandTrees ==
    {[d \in DirSet |-> IF d = <<"skills", "alpha">> /\ n # <<>>
                       THEN SkillManifest(n, None) ELSE NoManifest] :
        n \in SkillNames \cup {<<>>}}

CommandEnvs ==
    [clone_ok : BOOLEAN, search_exists : BOOLEAN, tree : CommandTrees,
     listing : {ManifestDirs}, remote_hash : {"tree1"}, internal_env : {FALSE}]

CommandParams ==
    {[source |-> source, skills |-> skills, agents |-> agents,
      scope |-> sa[1], project_path |-> sa[2], mode |-> ma[1], link_ok |-> ma[2]] :
        source \in CommandSources, skills \in {{}} \cup {SkillNames},
        agents \in CommandAgents, sa \in ScopeArgs, ma \in ModeArgs}

\* the disk after an earlier symlink install for cursor, in each scope
InstalledDisks ==
    {install_skill_for_agent(EmptyFs, SourcePath, n, "cursor", sa[1], sa[2],
                             "symlink", TRUE).fs :
        n \in SkillNames, sa \in {<<"global", None>>, <<"project", Some("/proj")>>}}

\* where an untouchable entry can sit: claude-code's project and global
\* skill path, and the project's canonical path
DeniedPaths ==
    {join(<<ProcessCwd, config("claude-code").skills_dir>>, n) : n \in SanitizedNames}
    \cup {join(unwrap(config("claude-code").global_skills_dir), n) : n \in SanitizedNames}
    \cup {join(canonical_skills_dir(FALSE, "."), n) : n \in SanitizedNames}

CommandDisks ==
    LET plain == {EmptyFs} \cup InstalledDisks
    IN plain \cup {[d EXCEPT ![p] = DeniedNode] : d \in plain, p \in DeniedPaths}

\* a per-user store left by an older version, with an entry
StaleLockFile ==
    [kind |-> "json", version |-> CURRENT_VERSION - 1,
     skills |-> map_insert(EmptyMap, CHOOSE n \in SkillNames : TRUE,
                  [source |-> <<"a","/","b">>, source_type |-> "github",
                   source_url |-> GithubBase \o <<"a","/","b">>,
                   skill_path |-> Some(<<"skills", "alpha">>),
                   skill_folder_hash |-> "tree0",
                   installed_at |-> 0, updated_at |-> 0])]

InitCommand ==
    /\ fs \in CommandDisks
    /\ \E files \in {<<AbsentFile, AbsentFile>>, <<StaleLockFile, UnparsableFile>>} :
          /\ lock_file = files[1]
          /\ local_file = files[2]
    /\ legacy_file = AbsentFile
    /\ now = 1
    /\ last = Idle
    /\ pre = NoSnapshot
    /\ sz = Unused
    /\ dz = Unused
    /\ pure = Unused

InstallSkills ==
    /\ Ready
    /\ \E params \in CommandParams, env \in CommandEnvs :
       \E r \in {install_skills_inner(fs, lock_file, local_file, legacy_file, now,
                                      [params |-> params, env |-> env])} :
          /\ fs' = r.fs
          /\ lock_file' = r.lock_file
          /\ local_file' = r.local_file
          /\ last' = [op |-> "install_skills",
                      cmd |-> [params |-> params, env |-> env],
                      result |-> r.result]
          /\ pre' = Snapshot
          /\ UNCHANGED <<legacy_file, now, sz, dz, pure>>

FetchAvailable ==
    \E source \in CommandSources, env \in CommandEnvs :
       /\ Ready
       /\ last' = [op |-> "fetch_available",
                   cmd |-> [params |-> [source |-> source], env |-> env],
                   result |-> fetch_available_inner(source, env)]
       /\ pre' = Snapshot
       /\ UNCHANGED <<fs, lock_file, local_file, legacy_file, now, sz, dz, pure>>

NextCommand ==
    \/ InstallSkills
    \/ FetchAvailable
    \/ RemoveSkill

SpecCommand == InitCommand /\ [][NextCommand]_vars

(***************************************************************************)
(* copy_skill_files alone: one call on a source tree three levels deep and *)
(* a destination that is missing, empty, left with an old file (the        *)
(* removals of clean_and_create_directory are best effort) or not a        *)
(* directory.                                                              *)
(***************************************************************************)
\* the entries of a directory given as a function that maps the names it
\* lacks to NoNode
present(choice) ==
    [n \in {m \in DOMAIN choice : choice[m].kind # "none"} |-> choice[n]]

\* a third-level directory
LeafFolder == Folder([n \in {"z.txt"} |-> FileNode])

\* what can be under one name: nothing, a file, a directory with a file
EntryChoices == {NoNode, FileNode, LeafFolder}

\* second-level directories
SubFolders ==
    {Folder(present(choice)) :
        choice \in [{"run.sh", ".git", "metadata.json", "_internal.md"} ->
                       EntryChoices]}

\* source directories: a SKILL.md, any of README.md, .git and _drafts as a
\* file or a directory, and a scripts directory
CopySources ==
    {Folder(present([choice EXCEPT !["SKILL.md"] = FileNode,
                                   !["scripts"] = scripts])) :
        choice \in [{"SKILL.md", "README.md", ".git", "_drafts", "scripts"} ->
                       EntryChoices],
        scripts \in {NoNode} \cup SubFolders}

CopyDestinations ==
    {NoNode, EmptyFolder, Folder([n \in {"old.md"} |-> FileNode]), FileNode}

InitCopy ==
    /\ fs = EmptyFs
    /\ lock_file = AbsentFile
    /\ local_file = AbsentFile
    /\ legacy_file = AbsentFile
    /\ now = 0
    /\ last = Idle
    /\ pre = NoSnapshot
    /\ sz = Unused
    /\ dz = Unused
    /\ \E src \in CopySources, dst \in CopyDestinations :
          pure = [stage |-> "input", src |-> src, dst |-> dst]

CopySkillFiles ==
    /\ pure.stage = "input"
    /\ pure' = [stage |-> "copied", src |-> pure.src, dst |-> pure.dst,
                result |-> copy_skill_files_tree(pure.src, pure.dst)]
    /\ UNCHANGED <<fs, lock_file, local_file, legacy_file, now, last, pre, sz, dz>>

NextCopy == CopySkillFiles

SpecCopy == InitCopy /\ [][NextCopy]_vars

(***************************************************************************)
(* check_updates alone: one call on a lock with up to two skills and the   *)
(* responses GitHub gives to the requests made for each of them.           *)
(***************************************************************************)
UpdateNames == {"n1", "n2"}

SkillFolder == <<"s">>
UpdatePaths ==
    {None, Some(<<>>), Some(SkillFolder \o <<"/">> \o SkillMdFile),
     Some(SkillFolder \o <<"\\">> \o SkillMdFile), Some(SkillMdFile)}

UpdateEntry(source_type, skill_path, skill_folder_hash) ==
    [source |-> "o/r", source_type |-> source_type, skill_path |-> skill_path,
     skill_folder_hash |-> skill_folder_hash]

Absent == [kind |-> "absent"]

\* what the lock can hold for the first skill, and for the second
FirstEntries ==
    {Absent} \cup {UpdateEntry(source_type, skill_path, hash) :
                     source_type \in {"github", "gitlab"},
                     skill_path \in UpdatePaths, hash \in {"", "tree0"}}
SecondEntries ==
    {Absent, UpdateEntry("github", Some(SkillFolder \o <<"/">> \o SkillMdFile), "tree0"),
     UpdateEntry("github", Some(SkillMdFile), "tree1")}

lock_of(first, second) ==
    [version |-> CURRENT_VERSION,
     skills |-> [n \in {m \in UpdateNames :
                          (IF m = "n1" THEN first ELSE second) # Absent} |->
                   IF n = "n1" THEN first ELSE second]]

LockReads ==
    {[ok |-> FALSE, lock |-> None]}
    \cup {[ok |-> TRUE, lock |-> lock_of(first, second)] :
            first \in FirstEntries, second \in SecondEntries}

BranchResponses ==
    {Unreachable, Garbled} \cup
    {TreesResponse("tree1", tree) :
        tree \in {<<>>,
                  <<TreeEntry(SkillFolder, "blob", "tree9"),
                    TreeEntry(SkillFolder, "tree", "tree0")>>,
                  <<TreeEntry(<<"t">>, "tree", "tree0"),
                    TreeEntry(SkillFolder, "tree", "tree1")>>}}

Remotes ==
    {[n \in UpdateNames |-> IF n = "n1" THEN first ELSE second] :
        first \in [{"main", "master"} -> BranchResponses],
        second \in [{"main", "master"} -> {Unreachable, TreesResponse("tree1", <<>>)}]}

InitUpdate ==
    /\ fs = EmptyFs
    /\ lock_file = AbsentFile
    /\ local_file = AbsentFile
    /\ legacy_file = AbsentFile
    /\ now = 0
    /\ last = Idle
    /\ pre = NoSnapshot
    /\ sz = Unused
    /\ dz = Unused
    /\ \E lock_read \in LockReads, remote \in Remotes :
          pure = [stage |-> "input", lock_read |-> lock_read, remote |-> remote]

CheckUpdates ==
    /\ pure.stage = "input"
    /\ pure' = [stage |-> "checked", lock_read |-> pure.lock_read,
                remote |-> pure.remote,
                result |-> check_updates_inner(pure.lock_read, pure.remote)]
    /\ UNCHANGED <<fs, lock_file, local_file, legacy_file, now, last, pre, sz, dz>>

NextUpdate == CheckUpdates

SpecUpdate == InitUpdate /\ [][NextUpdate]_vars

(***************************************************************************)
(* compute_skill_folder_hash alone: a directory is hashed, then hashed     *)
(* again as it is, with a .git directory added or removed, or with one     *)
(* file renamed.                                                           *)
(***************************************************************************)
MaxNameLen == 3
HashNames == StringsUpTo({"a", "b"}, MaxNameLen) \ {<<>>}
HashContents == {<<>>, <<"a">>, <<"b", "a">>}

\* up to two files under names of the model
FilePairs ==
    {[n \in {} |-> NoNode]}
    \cup {[n \in {p} |-> File(c)] : p \in HashNames, c \in HashContents}
    \cup {[n \in {p, q} |-> IF n = p THEN File(c) ELSE File(d)] :
            p \in HashNames, q \in {<<"a","b","a">>, <<"b">>},
            c \in HashContents, d \in {<<>>, <<"b", "a">>}}

\* a .git directory, and a directory d with a file
GitFolder == Folder([n \in {<<"a">>} |-> File(<<"b">>)])
SubFolder == Folder([n \in {<<"a">>} |-> File(<<"a">>)])

with_entry(dir, name, node) ==
    Folder([n \in DOMAIN dir.entries \cup {name} |->
              IF n = name THEN node ELSE dir.entries[n]])

without_entry(dir, name) ==
    Folder([n \in DOMAIN dir.entries \ {name} |-> dir.entries[n]])

HashFolders ==
    LET plain == {Folder(files) : files \in FilePairs}
        nested == plain \cup {with_entry(d, <<"d">>, SubFolder) : d \in plain}
    IN nested \cup {with_entry(d, DotGitName, GitFolder) : d \in nested}
              \cup {with_entry(d, NodeModulesName, GitFolder) : d \in plain}

InitHash ==
    /\ fs = EmptyFs
    /\ lock_file = AbsentFile
    /\ local_file = AbsentFile
    /\ legacy_file = AbsentFile
    /\ now = 0
    /\ last = Idle
    /\ pre = NoSnapshot
    /\ sz = Unused
    /\ dz = Unused
    /\ \E dir \in HashFolders : pure = [stage |-> "input", dir |-> dir]

\* the directory changed by `change` and hashed before and after
hashed_twice(change, dir, changed) ==
    [stage |-> "hashed", change |-> change, dir |-> dir, changed |-> changed,
     before |-> compute_skill_folder_hash(dir),
     after |-> compute_skill_folder_hash(changed)]

HashAgain ==
    /\ pure.stage = "input"
    /\ pure' = hashed_twice("none", pure.dir, pure.dir)
    /\ UNCHANGED <<fs, lock_file, local_file, legacy_file, now, last, pre, sz, dz>>

AddGit ==
    /\ pure.stage = "input"
    /\ DotGitName \notin DOMAIN pure.dir.entries
    /\ pure' = hashed_twice("add_git", pure.dir,
                            with_entry(pure.dir, DotGitName, GitFolder))
    /\ UNCHANGED <<fs, lock_file, local_file, legacy_file, now, last, pre, sz, dz>>

RemoveGit ==
    /\ pure.stage = "input"
    /\ DotGitName \in DOMAIN pure.dir.entries
    /\ pure' = hashed_twice("remove_git", pure.dir,
                            without_entry(pure.dir, DotGitName))
    /\ UNCHANGED <<fs, lock_file, local_file, legacy_file, now, last, pre, sz, dz>>

\* a file of the directory that is hashed gets a name the directory does
\* not hold yet
RenameFile ==
    /\ pure.stage = "input"
    /\ \E old \in DOMAIN pure.dir.entries, new \in HashNames :
          /\ pure.dir.entries[old].kind = "file"
          /\ old \notin {DotGitName, NodeModulesName}
          /\ new \notin DOMAIN pure.dir.entries
          /\ pure' = hashed_twice("rename", pure.dir,
                        with_entry(without_entry(pure.dir, old), new,
                                   pure.dir.entries[old]))
    /\ UNCHANGED <<fs, lock_file, local_file, legacy_file, now, last, pre, sz, dz>>

NextHash ==
    \/ HashAgain
    \/ AddGit
    \/ RemoveGit
    \/ RenameFile

SpecHash == InitHash /\ [][NextHash]_vars

(***************************************************************************)
(* get_plugin_groupings alone: one call for the root /r, with manifests    *)
(* whose paths stay inside the root or leave it, on disks where the        *)
(* directories named exist or not.                                         *)
(***************************************************************************)
PluginRoot == <<"r">>

\* "./a", "./a/../a", "./../outside", "./a/../../outside", "../outside", "a"
ManifestPaths ==
    {<<".", "a">>, <<".", "a", "..", "a">>, <<".", "..", "outside">>,
     <<".", "a", "..", "..", "outside">>, <<"..", "outside">>, <<"a">>}

\* the root exists; /r/a, /r/a/a and /outside may
PluginDisks ==
    {{PluginRoot} \cup extra :
        extra \in SUBSET {<<"r", "a">>, <<"outside">>}}
    \cup {{PluginRoot, <<"r", "a">>, <<"r", "a", "a">>, <<"outside">>}}

MarketplaceManifests ==
    {None} \cup
    {Some([plugin_root |-> plugin_root,
           plugins |-> <<[name |-> Some("m"), source |-> source,
                          skills |-> <<skill>>]>>]) :
        plugin_root \in {None, Some(<<".", "a">>), Some(<<".", "..", "outside">>),
                         Some(<<"a">>)},
        source \in {NoSourceField, SourceObject} \cup
                   {SourceString(p) : p \in ManifestPaths},
        skill \in {<<".", "a">>, <<".", "..", "outside">>}}
    \cup {Some([plugin_root |-> None,
                plugins |-> <<[name |-> None, source |-> NoSourceField,
                               skills |-> <<<<".", "a">>>>]>>])}

PluginManifests ==
    {None, Some([name |-> None, skills |-> Some(<<<<".", "a">>>>)]),
     Some([name |-> Some("p"), skills |-> None])}
    \cup {Some([name |-> Some("p"), skills |-> Some(<<p, <<".", "a">>>>)]) :
            p \in ManifestPaths}

InitPlugin ==
    /\ fs = EmptyFs
    /\ lock_file = AbsentFile
    /\ local_file = AbsentFile
    /\ legacy_file = AbsentFile
    /\ now = 0
    /\ last = Idle
    /\ pre = NoSnapshot
    /\ sz = Unused
    /\ dz = Unused
    /\ \E disk \in PluginDisks, marketplace \in MarketplaceManifests,
          plugin \in PluginManifests :
          pure = [stage |-> "input", disk |-> disk, marketplace |-> marketplace,
                  plugin |-> plugin]

GetPluginGroupings ==
    /\ pure.stage = "input"
    /\ pure' = [stage |-> "grouped", disk |-> pure.disk,
                marketplace |-> pure.marketplace, plugin |-> pure.plugin,
                groupings |-> get_plugin_groupings(pure.disk, PluginRoot,
                                 pure.marketplace, pure.plugin)]
    /\ UNCHANGED <<fs, lock_file, local_file, legacy_file, now, last, pre, sz, dz>>

NextPlugin == GetPluginGroupings

SpecPlugin == InitPlugin /\ [][NextPlugin]_vars

(***************************************************************************)
(* The project store alone: a project whose skills-lock.json and           *)
(* .agents/.skill-lock.json are each absent, unreadable, unparsable or     *)
(* written by some version, read by read_local_lock and written by         *)
(* add_skill_to_local_lock.                                                *)
(***************************************************************************)
\* what the legacy file holds for one skill: a global-format entry with or
\* without a tree hash and a skill path
LegacyEntries ==
    {[source |-> "old/repo", source_type |-> "github",
      source_url |-> "https://github.com/old/repo.git",
      skill_path |-> skill_path, skill_folder_hash |-> skill_folder_hash,
      installed_at |-> 0, updated_at |-> 0] :
        skill_path \in {None, Some("skills/old")},
        skill_folder_hash \in {"", "tree0"}}

LegacySkillMaps ==
    UNION {StoredSkillMaps(e) : e \in LegacyEntries}
    \cup {map_insert(map_insert(EmptyMap, OtherSkill, StoredEntry), n,
                     [StoredEntry EXCEPT !.skill_folder_hash = ""]) :
            n \in SkillNames}

ProjectModernFiles ==
    {AbsentFile, UnreadableFile, UnparsableFile}
    \cup {JsonFile([version |-> v, skills |-> m]) :
             v \in {LOCAL_LOCK_VERSION - 1, LOCAL_LOCK_VERSION,
                    LOCAL_LOCK_VERSION + 1},
             m \in StoredSkillMaps(StoredLocalEntry)}

ProjectLegacyFiles ==
    {AbsentFile, UnreadableFile, UnparsableFile}
    \cup {JsonFile([version |-> v, skills |-> m]) :
             v \in {CURRENT_VERSION - 1, CURRENT_VERSION},
             m \in LegacySkillMaps}

InitLocal ==
    /\ fs = EmptyFs
    /\ lock_file = AbsentFile
    /\ local_file \in ProjectModernFiles
    /\ legacy_file \in ProjectLegacyFiles
    /\ now = 0
    /\ last = Idle
    /\ pre = NoSnapshot
    /\ sz = Unused
    /\ dz = Unused
    /\ pure = Unused

ReadLocalLock ==
    /\ Ready
    /\ last' = [op |-> "read_local_lock",
                result |-> read_local_lock(local_file, legacy_file)]
    /\ pre' = Snapshot
    /\ UNCHANGED <<fs, lock_file, local_file, legacy_file, now, sz, dz, pure>>

NextLocal ==
    \/ ReadLocalLock
    \/ AddSkillToLocalLock
    \/ Deliver

SpecLocal == InitLocal /\ [][NextLocal]_vars

(***************************************************************************)
(* discover_skills over the agents' project skills directories: one skill  *)
(* right below an agent's directory, with or without a skill in the        *)
(* generic skills/ directory and one in a directory of no convention.      *)
(***************************************************************************)
\* the skills_dir of every AgentType::config, as path components
RegistrySkillsDirs ==
    {<<".adal", "skills">>, <<".agent", "skills">>, <<".agents", "skills">>,
     <<".augment", "skills">>, <<".claude", "skills">>, <<".cline", "skills">>,
     <<".codebuddy", "skills">>, <<".commandcode", "skills">>,
     <<".continue", "skills">>, <<".crush", "skills">>, <<".cursor", "skills">>,
     <<".factory", "skills">>, <<".goose", "skills">>, <<".iflow", "skills">>,
     <<".junie", "skills">>, <<".kilocode", "skills">>, <<".kiro", "skills">>,
     <<".kode", "skills">>, <<".mcpjam", "skills">>, <<".mux", "skills">>,
     <<".neovate", "skills">>, <<".openhands", "skills">>, <<".pi", "skills">>,
     <<".pochi", "skills">>, <<".qoder", "skills">>, <<".qwen", "skills">>,
     <<".roo", "skills">>, <<".trae", "skills">>, <<".vibe", "skills">>,
     <<".windsurf", "skills">>, <<".zencoder", "skills">>, <<"skills">>}

ProbeGeneric == <<"skills", "alpha">>
ProbeElsewhere == <<"docs", "examples", "gamma">>

\* the directories of one run: the root, the two fixed ones and the child
\* "mine" of the agent directory probed
ProbeDirs(agent_dir) ==
    << <<>>, ProbeGeneric, ProbeElsewhere, Append(agent_dir, "mine") >>

InitProbe ==
    /\ fs = EmptyFs
    /\ lock_file = AbsentFile
    /\ local_file = AbsentFile
    /\ legacy_file = AbsentFile
    /\ now = 0
    /\ last = Idle
    /\ pre = NoSnapshot
    /\ sz = Unused
    /\ pure = Unused
    /\ \E agent_dir \in RegistrySkillsDirs, options \in DiscoverOptions,
          generic \in {NoManifest, BadManifest, SkillManifest("n1", None)},
          elsewhere \in {NoManifest, SkillManifest("n3", None)},
          mine \in {SkillManifest("n2", None),
                    SkillManifest("n2", Some([internal |-> TRUE]))} :
          dz = [stage |-> "input",
                tree |-> [d \in {ProbeDirs(agent_dir)[i] : i \in 1..4} |->
                            IF d = ProbeGeneric THEN generic
                            ELSE IF d = ProbeElsewhere THEN elsewhere
                            ELSE IF d = <<>> THEN NoManifest
                            ELSE mine],
                listing |-> ProbeDirs(agent_dir), options |-> options]

NextProbe == DiscoverSkills

SpecProbe == InitProbe /\ [][NextProbe]_vars

(***************************************************************************)
(* core/git.rs: clone_repo_with_progress as a process.  The call's state   *)
(* is kept in `pure`: where the call stands (pc), the git child process,   *)
(* the time since the child was spawned in milliseconds, the progress      *)
(* events reported so far and the returned value.                          *)
(***************************************************************************)
CLONE_TIMEOUT_SECS == 120

\* std::thread::sleep(Duration::from_millis(100))
SleepMillis == 100

\* what one turn of the wait loop can take: the sleep, or twice as long on
\* a busy machine
Delays == {SleepMillis, 2 * SleepMillis}

\* Duration::as_secs of a time in milliseconds
as_secs(millis) == millis \div 1000

CloneProgress(phase, elapsed_secs) ==
    [phase |-> phase, elapsed_secs |-> elapsed_secs,
     timeout_secs |-> CLONE_TIMEOUT_SECS]

CloneOk == Some([ok |-> TRUE])
CloneErr(error) == Some([ok |-> FALSE, error |-> error])

InitClone ==
    /\ fs = EmptyFs
    /\ lock_file = AbsentFile
    /\ local_file = AbsentFile
    /\ legacy_file = AbsentFile
    /\ now = 0
    /\ last = Idle
    /\ pre = NoSnapshot
    /\ sz = Unused
    /\ dz = Unused
    /\ pure = [stage |-> "clone", pc |-> "start", child |-> "none",
               elapsed |-> 0, last_progress_secs |-> 0, events |-> <<>>,
               result |-> None]

\* the call returns: the events reported, the child's fate, the value
returns(events, child, result) ==
    /\ pure' = [pure EXCEPT !.pc = "returned", !.events = events,
                            !.child = child, !.result = result]
    /\ UNCHANGED <<fs, lock_file, local_file, legacy_file, now, last, pre, sz, dz>>

\* the Err arm of clone_repo_with_progress's match
returns_failure(child, error) ==
    returns(Append(pure.events, CloneProgress("error", CLONE_TIMEOUT_SECS)),
            child, CloneErr(error))

\* on_progress(Connecting) at the start of the call
ReportConnecting ==
    /\ pure.stage = "clone"
    /\ pure.pc = "start"
    /\ pure' = [pure EXCEPT !.pc = "temp_dir",
                  !.events = Append(@, CloneProgress("connecting", 0))]
    /\ UNCHANGED <<fs, lock_file, local_file, legacy_file, now, last, pre, sz, dz>>

\* TempDir::new().map_err(..)?
CreateTempDir ==
    /\ pure.stage = "clone"
    /\ pure.pc = "temp_dir"
    /\ \/ /\ pure' = [pure EXCEPT !.pc = "spawn"]
          /\ UNCHANGED <<fs, lock_file, local_file, legacy_file, now, last, pre, sz, dz>>
       \/ returns(pure.events, pure.child, CloneErr("GitCloneFailed"))

\* cmd.spawn() in execute_with_timeout_and_progress
SpawnGit ==
    /\ pure.stage = "clone"
    /\ pure.pc = "spawn"
    /\ \/ /\ pure' = [pure EXCEPT !.pc = "wait", !.child = "running"]
          /\ UNCHANGED <<fs, lock_file, local_file, legacy_file, now, last, pre, sz, dz>>
       \/ returns_failure(pure.child, "GitCloneFailed")

\* one turn of the wait loop, and what clone_repo_with_progress makes of the
\* value when the loop returns
TryWait ==
    /\ pure.stage = "clone"
    /\ pure.pc = "wait"
    /\ \/ returns_failure(pure.child, "GitCloneFailed")
       \/ /\ pure.child = "exited_ok"
          /\ returns(Append(pure.events,
                            CloneProgress("done", as_secs(pure.elapsed))),
                     pure.child, CloneOk)
       \/ /\ pure.child = "exited_failed"
          /\ returns(Append(pure.events,
                            CloneProgress("error", as_secs(pure.elapsed))),
                     pure.child, CloneErr("classified"))
       \/ /\ pure.child = "running"
          /\ pure.elapsed > CLONE_TIMEOUT_SECS * 1000
          /\ returns_failure("killed", "GitTimeout")
       \/ /\ pure.child = "running"
          /\ pure.elapsed <= CLONE_TIMEOUT_SECS * 1000
          /\ \E delay \in Delays :
                pure' = [pure EXCEPT
                   !.elapsed = @ + delay,
                   !.last_progress_secs =
                      IF as_secs(pure.elapsed) > @ THEN as_secs(pure.elapsed) ELSE @,
                   !.events =
                      IF as_secs(pure.elapsed) > pure.last_progress_secs
                      THEN Append(@, CloneProgress("cloning", as_secs(pure.elapsed)))
                      ELSE @]
          /\ UNCHANGED <<fs, lock_file, local_file, legacy_file, now, last, pre, sz, dz>>

\* the git process ends by itself
GitExits ==
    /\ pure.stage = "clone"
    /\ pure.child = "running"
    /\ \E status \in {"exited_ok", "exited_failed"} :
          pure' = [pure EXCEPT !.child = status]
    /\ UNCHANGED <<fs, lock_file, local_file, legacy_file, now, last, pre, sz, dz>>

\* the steps of the call itself
CloneStep ==
    \/ ReportConnecting
    \/ CreateTempDir
    \/ SpawnGit
    \/ TryWait

NextClone ==
    \/ CloneStep
    \/ GitExits

SpecClone == InitClone /\ [][NextClone]_vars

\* the thread running the call keeps being scheduled
SpecCloneFair == SpecClone /\ WF_vars(CloneStep)

(***************************************************************************)
(* An install and a removal running side by side.  Nothing in the          *)
(* installer, the uninstaller or the commands takes a lock, so the steps   *)
(* of install_with_symlink followed by step 7 of install_skills            *)
(* interleave freely with the steps of remove_skill.  `pure` holds the     *)
(* arguments of the two calls and where each of them stands; a step is one *)
(* filesystem or store call of the code (or, for the canonical directory   *)
(* of remove_skill, the check and the removal that follows it).            *)
(***************************************************************************)
\* the installs a run can start after: nothing, or the same install before
RaceDisks(skill_name, agent, sa, link_ok) ==
    {EmptyFs,
     install_skill_for_agent(EmptyFs, SourcePath, skill_name, agent,
                             sa[1], sa[2], "symlink", link_ok).fs}

\* the LocalSkillLockEntry step 7 of install_skills builds
RaceEntry(f, install_dir) ==
    [source |-> SampleSource, source_type |-> "github",
     computed_hash |-> installed_hash(f, install_dir),
     remote_hash |-> Some("tree1"), skill_path |-> SampleSkillPath]

InitRace ==
    /\ lock_file = AbsentFile
    /\ local_file = AbsentFile
    /\ legacy_file = AbsentFile
    /\ now = 0
    /\ last = Idle
    /\ pre = NoSnapshot
    /\ sz = Unused
    /\ dz = Unused
    /\ \E skill_name \in SkillNames, agent \in AgentType, sa \in ScopeArgs,
          link_ok \in BOOLEAN :
          /\ fs \in RaceDisks(skill_name, agent, sa, link_ok)
          /\ pure = [stage |-> "race", skill_name |-> skill_name,
                     agent |-> agent, scope |-> sa[1], project_path |-> sa[2],
                     link_ok |-> link_ok,
                     \* target_agents is None and no agent is detected
                     agents_to_remove |-> all_agents,
                     ipc |-> "start", installed |-> None,
                     rpc |-> "start", ri |-> 1, removed_paths |-> {},
                     removed |-> None, first |-> "none",
                     overlapped |-> FALSE]

race_is_global == pure.scope = "global"
race_cwd == unwrap_or_dot(pure.project_path)
race_canonical_dir ==
    join(canonical_skills_dir(race_is_global, race_cwd),
         sanitize_name(pure.skill_name))
race_agent_dir ==
    join(agent_base(pure.agent, race_is_global, race_cwd),
         sanitize_name(pure.skill_name))

in_progress(pc) == pc \notin {"start", "done"}

\* a step of the install: the disk after it, where the install goes next and
\* what it returns (None while it runs)
install_step(f, ipc, installed) ==
    /\ pure.stage = "race"
    /\ fs' = f
    /\ pure' = [pure EXCEPT
                  !.ipc = ipc, !.installed = installed,
                  !.first = IF @ = "none" THEN "install" ELSE @,
                  !.overlapped = @ \/ in_progress(pure.rpc)]
    /\ UNCHANGED <<legacy_file, now, last, pre, sz, dz>>

\* clean_and_create_directory(&canonical_dir)?
InstallCleanCanonical ==
    /\ pure.stage = "race"
    /\ pure.ipc = "start"
    /\ \E d \in {clean_and_create_directory(fs, race_canonical_dir)} :
          install_step(d.fs, IF d.ok THEN "copy" ELSE "done",
                       IF d.ok THEN None ELSE Some(FALSE))
    /\ UNCHANGED <<lock_file, local_file>>

\* copy_skill_files(skill_path, &canonical_dir)?, and the early return of a
\* universal agent in Global scope
InstallCopyCanonical ==
    /\ pure.stage = "race"
    /\ pure.ipc = "copy"
    /\ \E c \in {copy_skill_files(fs, SourcePath, race_canonical_dir)} :
          install_step(c.fs,
             IF ~c.ok THEN "done"
             ELSE IF race_is_global /\ is_universal(pure.agent) THEN "lock"
             ELSE "link",
             IF ~c.ok THEN Some(FALSE) ELSE None)
    /\ UNCHANGED <<lock_file, local_file>>

\* create_symlink(&canonical_dir, &agent_dir)
InstallCreateSymlink ==
    /\ pure.stage = "race"
    /\ pure.ipc = "link"
    /\ \E s \in {create_symlink(fs, race_canonical_dir, race_agent_dir,
                                pure.link_ok)} :
          install_step(s.fs, IF s.ok THEN "lock" ELSE "fallback_clean", None)
    /\ UNCHANGED <<lock_file, local_file>>

\* the fallback: clean_and_create_directory(&agent_dir)?
InstallFallbackClean ==
    /\ pure.stage = "race"
    /\ pure.ipc = "fallback_clean"
    /\ \E d \in {clean_and_create_directory(fs, race_agent_dir)} :
          install_step(d.fs, IF d.ok THEN "fallback_copy" ELSE "done",
                       IF d.ok THEN None ELSE Some(FALSE))
    /\ UNCHANGED <<lock_file, local_file>>

\* the fallback: copy_skill_files(skill_path, &agent_dir)?
InstallFallbackCopy ==
    /\ pure.stage = "race"
    /\ pure.ipc = "fallback_copy"
    /\ \E c \in {copy_skill_files(fs, SourcePath, race_agent_dir)} :
          install_step(c.fs, IF c.ok THEN "lock" ELSE "done",
                       IF c.ok THEN None ELSE Some(FALSE))
    /\ UNCHANGED <<lock_file, local_file>>

\* step 7 of install_skills for the installed skill; the install has
\* succeeded
InstallWriteLock ==
    /\ pure.stage = "race"
    /\ pure.ipc = "lock"
    /\ lock_file' =
          IF race_is_global
          THEN add_skill_to_lock(lock_file, now, pure.skill_name, SampleSource,
                                 "github", SampleUrl, SampleSkillPath, "tree1")
          ELSE lock_file
    /\ local_file' =
          IF ~race_is_global /\ pure.project_path # None
          THEN add_skill_to_local_lock(local_file, legacy_file,
                                       pure.skill_name,
                                       RaceEntry(fs, race_canonical_dir))
          ELSE local_file
    /\ install_step(fs, "done", Some(TRUE))

\* a step of the removal
remove_step(f, rpc, ri, removed_paths, removed) ==
    /\ pure.stage = "race"
    /\ fs' = f
    /\ pure' = [pure EXCEPT
                  !.rpc = rpc, !.ri = ri, !.removed_paths = removed_paths,
                  !.removed = removed,
                  !.first = IF @ = "none" THEN "remove" ELSE @,
                  !.overlapped = @ \/ in_progress(pure.ipc)]
    /\ UNCHANGED <<legacy_file, now, last, pre, sz, dz>>

\* one turn of the loop over agents_to_remove
RemoveAgentPath ==
    /\ pure.stage = "race"
    /\ pure.rpc \in {"start", "loop"}
    /\ \E r \in {remove_agent_paths(fs,
                    <<pure.agents_to_remove[pure.ri]>>, 1, race_is_global,
                    race_cwd, sanitize_name(pure.skill_name),
                    pure.removed_paths)} :
          remove_step(r.fs,
             IF pure.ri = Len(pure.agents_to_remove) THEN "canonical" ELSE "loop",
             pure.ri + 1, r.removed_paths, None)
    /\ UNCHANGED <<lock_file, local_file>>

\* full removal: the shared-use check and remove_path(&canonical_path)
RemoveCanonical ==
    /\ pure.stage = "race"
    /\ pure.rpc = "canonical"
    /\ remove_step(
          IF ~still_used(fs, {pure.agents_to_remove[i] :
                                 i \in 1..Len(pure.agents_to_remove)},
                         race_is_global, race_cwd,
                         sanitize_name(pure.skill_name))
          THEN remove_path(fs, race_canonical_dir).fs
          ELSE fs,
          "lock", pure.ri, pure.removed_paths, None)
    /\ UNCHANGED <<lock_file, local_file>>

\* full removal: the entry is read and taken out of the scope's lock store;
\* the removal returns success
RemoveLockEntry ==
    /\ pure.stage = "race"
    /\ pure.rpc = "lock"
    /\ lock_file' =
          IF race_is_global
          THEN remove_skill_from_lock(lock_file, pure.skill_name).file
          ELSE lock_file
    /\ local_file' =
          IF ~race_is_global /\ pure.project_path # None
          THEN remove_skill_from_local_lock(local_file, legacy_file,
                                            pure.skill_name)
          ELSE local_file
    /\ remove_step(fs, "done", pure.ri, pure.removed_paths, Some(TRUE))

NextRace ==
    \/ InstallCleanCanonical
    \/ InstallCopyCanonical
    \/ InstallCreateSymlink
    \/ InstallFallbackClean
    \/ InstallFallbackCopy
    \/ InstallWriteLock
    \/ RemoveAgentPath
    \/ RemoveCanonical
    \/ RemoveLockEntry

SpecRace == InitRace /\ [][NextRace]_vars

(***************************************************************************)
(* Several skills in one scope: installs of skills whose names differ     *)
(* (one pair of names differs only in characters sanitize_name rewrites),  *)
(* each followed by the lock write of install_skills, and full removals.   *)
(***************************************************************************)
\* "My s" and "my-s" are installed as "my-s", "other" as "other"
PairNames == SkillNames \cup {<<"m", "y", "-", "s">>, OtherSkill}

PairPaths ==
    {join(d, sanitize_name(n)) : d \in SkillsDirs, n \in PairNames}
    \cup {SourcePath, NowherePath}

\* the installs of one run
MaxInstalls == 2

InitPair ==
    /\ fs = [p \in PairPaths |->
               IF p = SourcePath THEN Dir(SourceFiles) ELSE NoNode]
    /\ lock_file = AbsentFile
    /\ local_file = AbsentFile
    /\ legacy_file = AbsentFile
    /\ now = 0
    /\ last = Idle
    /\ pre = NoSnapshot
    /\ sz = Unused
    /\ dz = Unused
    /\ pure = [stage |-> "pair", installs |-> 0]

\* install_skill_for_agent for one skill and agent and, when it succeeds,
\* step 7 of install_skills for the skill
InstallAndLock ==
    /\ Ready
    /\ pure.stage = "pair"
    /\ pure.installs < MaxInstalls
    /\ \E skill_name \in PairNames, agent \in AgentType, sa \in ScopeArgs,
          mode \in {"symlink", "copy"} :
          \E r \in {install_skill_for_agent(fs, SourcePath, skill_name, agent,
                                            sa[1], sa[2], mode, TRUE)} :
             /\ fs' = r.fs
             /\ lock_file' =
                   IF r.result.success /\ sa[1] = "global"
                   THEN add_skill_to_lock(lock_file, now, skill_name,
                           SampleSource, "github", SampleUrl, SampleSkillPath,
                           "tree1")
                   ELSE lock_file
             /\ local_file' =
                   IF r.result.success /\ sa[1] = "project" /\ sa[2] # None
                   THEN add_skill_to_local_lock(local_file, legacy_file,
                           skill_name,
                           RaceEntry(r.fs,
                              join(canonical_skills_dir(FALSE, unwrap(sa[2])),
                                   sanitize_name(skill_name))))
                   ELSE local_file
             /\ last' = [op |-> "install", skill_path |-> SourcePath,
                         skill_name |-> skill_name, agent |-> agent,
                         scope |-> sa[1], project_path |-> sa[2],
                         mode |-> mode, link_ok |-> TRUE,
                         result |-> r.result]
    /\ pre' = Snapshot
    /\ pure' = [pure EXCEPT !.installs = @ + 1]
    /\ UNCHANGED <<legacy_file, now, sz, dz>>

\* remove_skill(skill_name, scope, project_path, true, None), no agent
\* detected
RemoveFully ==
    /\ Ready
    /\ pure.stage = "pair"
    /\ \E skill_name \in PairNames, sa \in ScopeArgs :
          \E r \in {remove_skill(fs, lock_file, local_file, legacy_file,
                                 skill_name, sa[1], sa[2], TRUE, None, {})} :
             /\ fs' = r.fs
             /\ lock_file' = r.lock_file
             /\ local_file' = r.local_file
             /\ last' = [op |-> "remove", skill_name |-> skill_name,
                         scope |-> sa[1], project_path |-> sa[2],
                         full_removal |-> TRUE, agents |-> r.agents,
                         result |-> r.result]
    /\ pre' = Snapshot
    /\ UNCHANGED <<legacy_file, now, sz, dz, pure>>

NextPair ==
    \/ InstallAndLock
    \/ RemoveFully
    \/ Deliver

SpecPair == InitPair /\ [][NextPair]_vars

(***************************************************************************)
(* Properties of the materializer                                          *)
(***************************************************************************)
\* the canonical directory and an agent's skill path for the call in `last`
canonical_of(call) ==
    join(canonical_skills_dir(call.scope = "global",
                              unwrap_or_dot(call.project_path)),
         sanitize_name(call.skill_name))

skill_path_of(call, agent) ==
    unwrap(agent_skill_path(agent, call.scope = "global",
                            unwrap_or_dot(call.project_path),
                            sanitize_name(call.skill_name)))

\* the agent has the skill through the canonical directory: its skill path
\* is a link to it, or is the canonical directory itself
refers_to_canonical(f, call, agent) ==
    /\ f[canonical_of(call)].kind = "dir"
    /\ \/ f[skill_path_of(call, agent)] = Link(canonical_of(call))
       \/ skill_path_of(call, agent) = canonical_of(call)

\* C1 - shared-canonical safety: when agents A and B both have the skill
\* through one canonical directory, a remove_skill call (full or partial)
\* whose agents contain A but not B leaves the canonical directory and its
\* files as they were, as long as B's link/path still exists after the call.
C1_SharedCanonicalSafety ==
    last.op = "remove" =>
      \A A \in last.agents, B \in AgentType \ last.agents :
         ( /\ refers_to_canonical(pre.fs, last, A)
           /\ refers_to_canonical(pre.fs, last, B)
           /\ symlink_metadata_ok(fs, skill_path_of(last, B)) )
         => fs[canonical_of(last)] = pre.fs[canonical_of(last)]

C3_PartialRemovalFrame ==
    (last.op = "remove" /\ ~last.full_removal) =>
       /\ fs[canonical_of(last)] = pre.fs[canonical_of(last)]
       /\ lock_file = pre.lock_file
       /\ local_file = pre.local_file
       /\ legacy_file = pre.legacy_file

(***************************************************************************)
(* Properties of the lock stores                                           *)
(***************************************************************************)
\* what a reader of the per-user store finds for a skill: Some(entry) or None
global_entry_of(file, skill_name) == get_skill_from_lock(file, skill_name).entry

\* what a reader of the project's store finds for a skill
local_entry_of(modern, legacy, skill_name) ==
    LET r == read_local_lock(modern, legacy)
    IN IF r.ok THEN map_get(r.lock.skills, skill_name) ELSE None

\* C5 - install idempotence: a second install_skill_for_agent call with the
\* same arguments and link-creation outcome leaves the agent directory and
\* the canonical directory (the entries and what they hold) as the first
\* call left them, whatever was at the two paths before the first call.
C5_InstallIdempotent ==
    last.op = "install_again" =>
       \A p \in {skill_path_of(last, last.agent), canonical_of(last)} :
          /\ fs[p] = pre.fs[p]
          /\ resolve(fs, p, MaxLinkHops) = resolve(pre.fs, p, MaxLinkHops)

\* C4 - full removal deletes the skill's entry from the store of the call's
\* scope (the per-user store for Global, the project's store for Project)
\* and leaves the other scope's store as it was.
C4_FullRemovalLock ==
    (last.op = "remove" /\ last.full_removal) =>
       IF last.scope = "global"
       THEN /\ global_entry_of(lock_file, last.skill_name) = None
            /\ local_file = pre.local_file
            /\ legacy_file = pre.legacy_file
       ELSE /\ local_entry_of(local_file, legacy_file, last.skill_name) = None
            /\ lock_file = pre.lock_file

\* C4 for the calls that say which project they mean (Global calls, and
\* Project calls given a project path): the entry is gone from the scope's
\* store and the other store is as it was.  A Project call without a
\* project path is the case the code leaves both stores alone in.
C4_WithProjectPath ==
    (last.op = "remove" /\ last.scope = "project" /\ last.project_path = None)
    \/ C4_FullRemovalLock

\* C6 - uninstalling a never-installed skill: when the skill has no path
\* under any agent directory, no canonical directory and no entry in either
\* store, remove_skill returns success and changes neither the filesystem
\* nor a lock file.
never_installed(snapshot, skill_name) ==
    /\ \A p \in InstallPaths :
          p[3] = sanitize_name(skill_name) => snapshot.fs[p] = NoNode
    /\ global_entry_of(snapshot.lock_file, skill_name) = None
    /\ local_entry_of(snapshot.local_file, snapshot.legacy_file, skill_name) = None

C6_RemoveNeverInstalled ==
    (last.op = "remove" /\ never_installed(pre, last.skill_name)) =>
       /\ last.result.success
       /\ fs = pre.fs
       /\ lock_file = pre.lock_file
       /\ local_file = pre.local_file
       /\ legacy_file = pre.legacy_file

\* C6 witness: a full Global removal of a skill that was never installed,
\* with another skill's entry in the per-user store, has returned
C6_Witness ==
    /\ last.op = "remove"
    /\ last.full_removal
    /\ last.scope = "global"
    /\ never_installed(pre, last.skill_name)
    /\ global_entry_of(pre.lock_file, OtherSkill) # None
    /\ last.result.success
    /\ lock_file = pre.lock_file

\* C7 - lock version gate: with a stored per-user lock file whose version is
\* below CURRENT_VERSION, read_skill_lock returns Ok with no entries, and
\* get_skill_from_lock and get_all_locked_skills return Ok and see no entry.
stale_lock_file(file) == file.kind = "json" /\ file.version < CURRENT_VERSION

C7_VersionGate ==
    stale_lock_file(lock_file) =>
       /\ last.op = "read_skill_lock" =>
             last.result = [ok |-> TRUE, lock |-> SkillLockFile_empty]
       /\ last.op = "get_skill_from_lock" =>
             last.result = [ok |-> TRUE, entry |-> None]
       /\ last.op = "get_all_locked_skills" =>
             last.result = [ok |-> TRUE, skills |-> EmptyMap]

\* C7 witness: get_skill_from_lock has answered None for a skill whose entry
\* is in a version-2 file
C7_Witness ==
    /\ stale_lock_file(lock_file)
    /\ last.op = "get_skill_from_lock"
    /\ last.skill_name \in DOMAIN lock_file.skills
    /\ last.result = [ok |-> TRUE, entry |-> None]

\* C8 - the per-user upsert keeps the first install time: after
\* add_skill_to_lock the entry's installed_at is the one the store held for
\* the name before the call, or the call's time when it held none; the other
\* fields and updated_at are the call's; after remove_skill_from_lock the
\* store holds no entry for the name, so the next add stamps a new
\* installed_at.
C8_UpsertKeepsInstalledAt ==
    /\ last.op = "add_skill_to_lock" =>
          LET before == global_entry_of(pre.lock_file, last.skill_name)
              after == global_entry_of(lock_file, last.skill_name)
          IN /\ after # None
             /\ unwrap(after) =
                  [source |-> last.source, source_type |-> last.source_type,
                   source_url |-> last.source_url,
                   skill_path |-> last.skill_path,
                   skill_folder_hash |-> last.skill_folder_hash,
                   installed_at |-> IF before = None THEN last.at
                                    ELSE unwrap(before).installed_at,
                   updated_at |-> last.at]
    /\ (last.op = "remove_skill_from_lock" /\ last.result.ok) =>
          global_entry_of(lock_file, last.skill_name) = None

\* C8 witness: a second add at a later time has kept the first install time
C8_Witness ==
    /\ last.op = "add_skill_to_lock"
    /\ global_entry_of(pre.lock_file, last.skill_name) # None
    /\ unwrap(global_entry_of(lock_file, last.skill_name)).installed_at < last.at
    /\ unwrap(global_entry_of(lock_file, last.skill_name)).updated_at = last.at

(***************************************************************************)
(* Properties of sanitize_name                                             *)
(***************************************************************************)
\* every character of the name is rewritten to '-' or is '.' or '-': nothing
\* is left after trimming
fully_stripped(name) ==
    \A i \in 1..Len(name) : sanitize_char(name[i]) \in {"-", "."}

\* C9 - sanitize_name is idempotent and never empty: sanitizing a sanitized
\* name gives it back, for every input including those longer than the
\* cut-off; the result is never empty and is "unnamed-skill" when every
\* character is stripped.
C9_SanitizeIdempotentNonEmpty ==
    /\ sz.stage \in {"once", "twice"} =>
          /\ sz.once # <<>>
          /\ fully_stripped(sz.name) => sz.once = UnnamedSkill
    /\ sz.stage = "twice" => sz.twice = sz.once

(***************************************************************************)
(* Properties of discovery                                                 *)
(***************************************************************************)
\* C10 - discovery dedup: the result of a discover_skills pass never holds
\* two skills with one name; for every name met on the way (root manifest,
\* conventional directories, recursive walk) the result holds the skill
\* that was met first, and the pass returns Ok.
C10_DiscoveryDedup ==
    dz.stage = "done" =>
       LET skills == dz.result.skills
           met == dz.result.encountered
       IN /\ dz.result.ok
          /\ \A i, j \in 1..Len(skills) :
                skills[i].name = skills[j].name => i = j
          /\ \A k \in 1..Len(met) :
                \E i \in 1..Len(skills) :
                   /\ skills[i].name = met[k].name
                   /\ \E f \in 1..k :
                         /\ met[f] = skills[i]
                         /\ \A e \in 1..(f - 1) : met[e].name # met[k].name

\* C10 witness: a full-depth pass met one name at the root, in a
\* conventional directory and in the walk alone, and kept the root's skill
C10_Witness ==
    /\ dz.stage = "done"
    /\ dz.options.full_depth
    /\ Len(dz.result.skills) = 1
    /\ dz.result.skills[1].path = <<>>
    /\ \E k, l \in 1..Len(dz.result.encountered) :
          /\ dz.result.encountered[k].path = <<"skills", "alpha">>
          /\ dz.result.encountered[l].path = <<"docs", "examples", "gamma">>
          /\ dz.result.encountered[k].name = dz.result.skills[1].name
          /\ dz.result.encountered[l].name = dz.result.skills[1].name

\* C11 - discovery internal filter: with INSTALL_INTERNAL_SKILLS not set,
\* every manifest try_parse_skill was called for during a pass and that
\* carries metadata.internal = true was dropped when include_internal is
\* false and was returned with is_internal = TRUE when it is true (and is
\* then in the result unless an earlier skill holds its name); a manifest
\* without the flag was returned with is_internal = FALSE either way; and
\* no skill of the result contradicts the flag of the manifest it was read
\* from.
C11_InternalFilter ==
    (dz.stage = "done" /\ ~dz.options.env) =>
       LET skills == dz.result.skills
           met == dz.result.encountered
           visited == dz.result.visited
           returned(d, flag) ==
              /\ \E k \in 1..Len(met) :
                    met[k].path = d /\ met[k].is_internal = flag
              /\ \A k \in 1..Len(met) :
                    met[k].path = d => met[k].is_internal = flag
              /\ \E i \in 1..Len(skills) :
                    /\ skills[i].name = dz.tree[d].name
                    /\ skills[i].path = d \/ \E k \in 1..Len(met) :
                                              /\ met[k].name = dz.tree[d].name
                                              /\ met[k].path # d
       IN /\ \A v \in 1..Len(visited) :
                LET d == visited[v]
                    m == dz.tree[d]
                IN m.kind = "skill" =>
                      IF m.metadata = Some([internal |-> TRUE])
                      THEN IF dz.options.include_internal
                           THEN returned(d, TRUE)
                           ELSE /\ \A k \in 1..Len(met) : met[k].path # d
                                /\ \A i \in 1..Len(skills) : skills[i].path # d
                      ELSE returned(d, FALSE)
          /\ \A i \in 1..Len(skills) :
                skills[i].is_internal =
                   (dz.tree[skills[i].path].metadata = Some([internal |-> TRUE]))

\* C11 witness: a pass with include_internal set and no environment
\* override returned a flagged skill next to an unflagged one
C11_Witness ==
    /\ dz.stage = "done"
    /\ ~dz.options.env
    /\ dz.options.include_internal
    /\ \E i, j \in 1..Len(dz.result.skills) :
          /\ dz.result.skills[i].is_internal
          /\ ~dz.result.skills[j].is_internal

(***************************************************************************)
(* Properties of parse_source                                              *)
(***************************************************************************)
\* the input as the GitHub-shorthand rule sees it, when it gets that far
reaches_shorthand(raw) ==
    LET input == trim(raw)
    IN /\ input # <<>>
       /\ ~is_local_path(input)
       /\ ~starts_with(input, HttpScheme)
       /\ ~starts_with(input, HttpsScheme)
       /\ ~starts_with(input, GitAt)

shorthand_of(raw) == trim_end_matches(trim(raw), DotGit)

\* owner/repo[/subpath] as the result carries it
repo_path_of(result) ==
    slice_from(result.url, Len(GithubBase))
       \o (IF result.subpath = None THEN <<>>
           ELSE <<"/">> \o unwrap(result.subpath))

\* 1-based position of the last c of s, 0 when there is none
last_position(s, c) ==
    IF \E i \in 1..Len(s) : s[i] = c THEN Max({i \in 1..Len(s) : s[i] = c}) ELSE 0

\* C12 as stated - GitHub-shorthand '@' rule: when the last '@' lies after
\* the last '/' (the text after it then holds no '/'), the text after it is
\* the skill filter and the text before it the repo path; otherwise no
\* filter is extracted and the whole string, '@' included, is the repo path.
C12_AtRuleAsStated ==
    (pure.stage = "parsed" /\ reaches_shorthand(pure.input) /\ pure.result.ok) =>
       LET s == shorthand_of(pure.input)
           at == last_position(s, "@")
           slash == last_position(s, "/")
       IN IF at > 0 /\ at > slash /\ ~contains(SubSeq(s, at + 1, Len(s)), <<"/">>)
          THEN /\ pure.result.skill_filter = Some(SubSeq(s, at + 1, Len(s)))
               /\ repo_path_of(pure.result) = SubSeq(s, 1, at - 1)
          ELSE /\ pure.result.skill_filter = None
               /\ repo_path_of(pure.result) = s

\* C12 - GitHub-shorthand '@' rule: the last '@' is a skill filter exactly
\* when it lies after the last '/' and is followed by at least one
\* character; the filter is the text after it and the repo path the text
\* before it.  In every other case (no '@', last '@' before the last '/',
\* nothing after the '@') no filter is extracted and the whole string, '@'
\* included, is the repo path.  "a/b@skill" gives filter "skill" and no
\* subpath, "a/b/path@2.0" gives subpath "path" and filter "2.0".
C12_AtRule ==
    (pure.stage = "parsed" /\ reaches_shorthand(pure.input) /\ pure.result.ok) =>
       LET s == shorthand_of(pure.input)
           at == last_position(s, "@")
           slash == last_position(s, "/")
       IN /\ IF at > 0 /\ at > slash /\ at < Len(s)
             THEN /\ pure.result.skill_filter = Some(SubSeq(s, at + 1, Len(s)))
                  /\ repo_path_of(pure.result) = SubSeq(s, 1, at - 1)
             ELSE /\ pure.result.skill_filter = None
                  /\ repo_path_of(pure.result) = s
          /\ pure.input = ExampleFilter =>
                /\ pure.result.skill_filter = Some(<<"s","k","i","l","l">>)
                /\ pure.result.subpath = None
          /\ pure.input = ExamplePathFilter =>
                /\ pure.result.skill_filter = Some(<<"2",".","0">>)
                /\ pure.result.subpath = Some(<<"p","a","t","h">>)

\* C12 witness: a shorthand with one '@' before the last '/' and one after
\* it was parsed, and only the text after the last one became the filter
C12_Witness ==
    /\ pure.stage = "parsed"
    /\ pure.input = <<"@","/","a","@","a">>
    /\ pure.result.ok
    /\ pure.result.skill_filter = Some(<<"a">>)
    /\ pure.result.url = GithubBase \o <<"@","/","a">>

\* C13 - source classification is first-match-wins in the order local path,
\* HTTP(S) URL, git@ remote, GitHub shorthand: an empty trimmed input is an
\* invalid-source error; an input with a local-path prefix is Local, kept
\* whole, nothing else extracted; otherwise an input with an http(s) scheme
\* is classified by the URL rules only (github.com host, then a host
\* containing "gitlab", then a path ending in skill.md, then WellKnown) or
\* is an error; otherwise an input starting with git@ is Git, passed
\* through; only the rest is GitHub shorthand or an error.
C13_FirstMatchWins ==
    pure.stage = "parsed" =>
       LET input == trim(pure.input)
           r == pure.result
           verbatim(kind) ==
              r = ParsedSource(kind, input, None, None, None, None)
       IN IF input = <<>> THEN r = InvalidSource
          ELSE IF is_local_path(input)
               THEN r = ParsedSource("local", <<>>, None, Some(input), None, None)
          ELSE IF starts_with(input, HttpScheme) \/ starts_with(input, HttpsScheme)
               THEN LET url == Url_parse(input)
                    IN IF ~url.ok THEN r = InvalidSource
                       ELSE IF url.host \in {GithubCom, WwwGithubCom}
                            THEN r = InvalidSource \/ r.source_type = "github"
                       ELSE IF contains(url.host, Gitlab)
                            THEN r.ok /\ r.source_type = "gitlab"
                       ELSE IF ends_with(str_to_lowercase(url.path), SkillMd)
                            THEN verbatim("direct-url")
                       ELSE verbatim("well-known")
          ELSE IF starts_with(input, GitAt) THEN verbatim("git")
          ELSE r = InvalidSource
                  \/ (r.source_type = "github" /\ r.git_ref = None /\ r.local_path = None)

\* C13 witness: an input with a local-path prefix that also holds an '@'
\* after its last '/' was parsed and came out Local
C13_Witness ==
    /\ pure.stage = "parsed"
    /\ pure.input = <<".","/","a","@","a">>
    /\ pure.result.ok
    /\ pure.result.source_type = "local"
    /\ pure.result.skill_filter = None


(***************************************************************************)
(* Properties of the install, fetch and removal commands (SpecCommand)     *)
(***************************************************************************)
\* the canonical directories, agent skill directories and lock files are
\* as they were when the call started
nothing_mutated ==
    /\ fs = pre.fs
    /\ lock_file = pre.lock_file
    /\ local_file = pre.local_file
    /\ legacy_file = pre.legacy_file

\* empty, or a shorthand with fewer than two '/'-delimited segments
malformed_source(input) ==
    \/ trim(input) = <<>>
    \/ /\ ~is_local_path(trim(input))
       /\ ~starts_with(trim(input), HttpScheme)
       /\ ~starts_with(trim(input), HttpsScheme)
       /\ ~starts_with(trim(input), GitAt)
       /\ Len(split(trim(input), "/")) < 2

\* the request gets as far as looking at its search path
reaches_discovery(cmd) ==
    /\ parse_source(cmd.params.source).ok
    /\ parse_source(cmd.params.source).source_type \notin {"direct-url", "well-known"}
    /\ parse_source(cmd.params.source).source_type = "local" \/ cmd.env.clone_ok

is_input_error(result) ==
    ~result.ok /\ result.err \in {"InvalidSource", "PathNotFound"}

\* C14: an install or fetch request whose source string is malformed fails
\* with InvalidSource, one whose search path does not exist fails with
\* PathNotFound, and when either error is returned no canonical directory,
\* agent skill directory or lock file has been created, changed or removed.
C14_InputErrorsBeforeMutation ==
    last.op \in {"install_skills", "fetch_available"} =>
       /\ malformed_source(last.cmd.params.source) =>
             last.result = AppError("InvalidSource")
       /\ reaches_discovery(last.cmd) /\ ~last.cmd.env.search_exists =>
             last.result = AppError("PathNotFound")
       /\ is_input_error(last.result) => nothing_mutated

\* an install request for an existing skill and valid agents whose search
\* path is missing, on a disk that holds an installed skill and a lock file
C14_Witness ==
    /\ last.op = "install_skills"
    /\ last.result = AppError("PathNotFound")
    /\ last.cmd.params.skills # {}
    /\ \A k \in 1..Len(last.cmd.params.agents) :
          last.cmd.params.agents[k] \in AgentType
    /\ \E p \in AllPaths : p # SourcePath /\ pre.fs[p].kind = "dir"
    /\ pre.lock_file # AbsentFile

\* the outcomes an install request returned, successes first
outcomes_of(result) == result.successful \o result.failed

\* the names the request selected among the skills below its search path
selected_names(cmd) ==
    {cmd.env.tree[d].name :
        d \in {e \in DirSet : cmd.env.tree[e].kind = "skill"}}
    \cap cmd.params.skills

\* the entry at an agent's skill path cannot be removed or replaced
agent_path_denied(f, agent, scope, project_path, skill_name) ==
    f[unwrap(agent_skill_path(agent, scope = "global",
                              unwrap_or_dot(project_path),
                              sanitize_name(skill_name)))].kind = "denied"

C15_WitnessRemoval ==
    /\ last.op = "remove"
    /\ \E a, b \in 1..Len(all_agents) :
          /\ a < b
          /\ all_agents[a] \in last.agents
          /\ all_agents[b] \in last.agents
          /\ agent_path_denied(pre.fs, all_agents[a], last.scope,
                               last.project_path, last.skill_name)
          /\ LET p == unwrap(agent_skill_path(all_agents[b], last.scope = "global",
                                unwrap_or_dot(last.project_path),
                                sanitize_name(last.skill_name)))
             IN pre.fs[p].kind \in {"dir", "link"} /\ fs[p] = NoNode


(***************************************************************************)
(* Properties of copy_skill_files (SpecCopy)                               *)
(***************************************************************************)
\* the relative paths of the files below a directory
RECURSIVE file_paths(_)
file_paths(dir) ==
    UNION {IF dir.entries[n].kind = "dir"
           THEN {<<n>> \o rel : rel \in file_paths(dir.entries[n])}
           ELSE {<<n>>} : n \in DOMAIN dir.entries}

\* the relative paths of the directories below a directory
RECURSIVE dir_paths(_)
dir_paths(dir) ==
    UNION {IF dir.entries[n].kind = "dir"
           THEN {<<n>>} \cup {<<n>> \o rel : rel \in dir_paths(dir.entries[n])}
           ELSE {} : n \in DOMAIN dir.entries}

\* what the destination held before the call
held_before(dst) == IF dst.kind = "dir" THEN dst ELSE EmptyFolder

\* the source without the files named README.md or metadata.json, the
\* directories named .git and the entries whose name starts with '_'
RECURSIVE without_stated_exclusions(_)
without_stated_exclusions(dir) ==
    Folder([n \in {m \in DOMAIN dir.entries :
                     /\ ~(dir.entries[m].kind = "file" /\ m \in EXCLUDE_FILES)
                     /\ ~(dir.entries[m].kind = "dir" /\ m \in EXCLUDE_DIRS)
                     /\ ~starts_with_underscore(m)} |->
              IF dir.entries[n].kind = "dir"
              THEN without_stated_exclusions(dir.entries[n])
              ELSE dir.entries[n]])

branch_hash(resp, folder) ==
    IF resp.kind # "tree" THEN None
    ELSE IF folder = <<>> THEN Some(resp.sha)
    ELSE IF \E i \in 1..Len(resp.tree) :
               resp.tree[i].entry_type = "tree" /\ resp.tree[i].path = folder
    THEN Some(resp.tree[CHOOSE i \in 1..Len(resp.tree) :
                 resp.tree[i].entry_type = "tree" /\ resp.tree[i].path = folder].sha)
    ELSE None

\* the remote hash obtained for a skill, None when neither branch has one
remote_hash_obtained(responses, entry) ==
    LET folder == folder_path_of(unwrap(entry.skill_path))
    IN IF branch_hash(responses["main"], folder) # None
       THEN branch_hash(responses["main"], folder)
       ELSE branch_hash(responses["master"], folder)

reports_about(result, name) == {info \in result.results : info.name = name}

\* C17: when the lock was read, check_updates succeeds whatever the
\* requests returned, and reports each eligible entry (GitHub source,
\* non-empty stored hash and skill path) once, with has_update = true
\* exactly when a remote hash was obtained for that skill and differs from
\* the stored hash (so has_update = false when no matching tree entry
\* exists), and reports nothing about the other entries.
C17_DriftComparison ==
    pure.stage = "checked" /\ pure.lock_read.ok =>
       /\ pure.result.ok
       /\ \A info \in pure.result.results :
             info.name \in DOMAIN pure.lock_read.lock.skills
       /\ \A name \in DOMAIN pure.lock_read.lock.skills :
             LET e == pure.lock_read.lock.skills[name]
             IN IF is_checked(e)
                THEN reports_about(pure.result, name) =
                        {SkillUpdateInfo(name, e.source,
                            /\ remote_hash_obtained(pure.remote[name], e) # None
                            /\ remote_hash_obtained(pure.remote[name], e)
                                  # Some(e.skill_folder_hash))}
                ELSE reports_about(pure.result, name) = {}

\* two eligible skills: for the first the main branch cannot be reached and
\* master gives another hash than the stored one, for the second no request
\* succeeds
C17_Witness ==
    /\ pure.stage = "checked"
    /\ pure.lock_read.ok
    /\ DOMAIN pure.lock_read.lock.skills = UpdateNames
    /\ \A name \in UpdateNames : is_checked(pure.lock_read.lock.skills[name])
    /\ pure.remote["n1"]["main"] = Unreachable
    /\ pure.remote["n2"] = [b \in {"main", "master"} |-> Unreachable]
    /\ SkillUpdateInfo("n1", "o/r", TRUE) \in pure.result.results
    /\ SkillUpdateInfo("n2", "o/r", FALSE) \in pure.result.results


(***************************************************************************)
(* Properties of compute_skill_folder_hash (SpecHash)                      *)
(***************************************************************************)
\* the files of a directory that are not inside .git or node_modules
has_component(path, name) ==
    \/ path = name
    \/ starts_with(path, name \o <<"/">>)
    \/ contains(path, <<"/">> \o name \o <<"/">>)

hashed_files(dir) ==
    {f \in collect_all_files(dir, <<>>) :
        /\ ~has_component(f[1], DotGitName)
        /\ ~has_component(f[1], NodeModulesName)}

\* C18: the digest depends only on the (relative path, content) pairs of
\* the files that are not inside .git or node_modules: hashing the same
\* directory twice gives identical digests, adding or removing a .git
\* directory does not change the digest, and renaming a file changes it.
C18_HashDeterminism ==
    pure.stage = "hashed" =>
       /\ hashed_files(pure.dir) = hashed_files(pure.changed) =>
             pure.after = pure.before
       /\ pure.change \in {"none", "add_git", "remove_git"} =>
             pure.after = pure.before
       /\ pure.change = "rename" => pure.after # pure.before

\* hashing twice, and adding or removing .git, leave the digest as it was,
\* and directories with the same hashed files have the same digest
C18_SameFilesSameDigest ==
    pure.stage = "hashed" =>
       /\ hashed_files(pure.dir) = hashed_files(pure.changed) =>
             pure.after = pure.before
       /\ pure.change \in {"none", "add_git", "remove_git"} =>
             pure.after = pure.before

\* a .git directory was added to a directory with files and the digest,
\* which covers two files, stayed
C18_WitnessGit ==
    /\ pure.stage = "hashed"
    /\ pure.change = "add_git"
    /\ Cardinality(hashed_files(pure.dir)) = 2
    /\ pure.after = pure.before


(***************************************************************************)
(* Properties of get_plugin_groupings (SpecPlugin)                         *)
(***************************************************************************)
\* where a path leads: "." dropped and ".." taken one level up
RECURSIVE location_from(_, _)
location_from(resolved, rest) ==
    IF rest = <<>> THEN resolved
    ELSE IF Head(rest) = "." THEN location_from(resolved, Tail(rest))
    ELSE IF Head(rest) = ".."
    THEN location_from(IF resolved = <<>> THEN <<>>
                       ELSE SubSeq(resolved, 1, Len(resolved) - 1), Tail(rest))
    ELSE location_from(Append(resolved, Head(rest)), Tail(rest))

located_inside(path, root) == path_starts_with(location_from(<<>>, path), root)

\* C19: every key of the map returned by get_plugin_groupings(root) is a
\* path located inside root, whether or not the location exists on disk.
C19_GroupingContainment ==
    pure.stage = "grouped" =>
       \A key \in DOMAIN pure.groupings : located_inside(key, PluginRoot)

\* every key that exists on disk is located inside root
C19_ExistingKeysContained ==
    pure.stage = "grouped" =>
       \A key \in DOMAIN pure.groupings :
          canonicalize(pure.disk, key) # None => located_inside(key, PluginRoot)

\* a plugin.json naming "./a" and "./../outside" with both directories on
\* disk: only /r/a is grouped
C19_WitnessExisting ==
    /\ pure.stage = "grouped"
    /\ pure.marketplace = None
    /\ pure.plugin = Some([name |-> Some("p"),
                           skills |-> Some(<<<<".", "..", "outside">>, <<".", "a">>>>)])
    /\ <<"outside">> \in pure.disk
    /\ DOMAIN pure.groupings = {<<"r", "a">>}


(***************************************************************************)
(* Properties of the project store's read (SpecLocal)                      *)
(***************************************************************************)
\* the entry read_local_lock makes of a legacy entry, as the claim states it
converted_as_stated(made, legacy_entry) ==
    /\ made.source = legacy_entry.source
    /\ made.source_type = legacy_entry.source_type
    /\ made.skill_path = legacy_entry.skill_path
    /\ made.computed_hash = ""
    /\ legacy_entry.skill_folder_hash # "" =>
          made.remote_hash = Some(legacy_entry.skill_folder_hash)

\* C20: read_local_lock returns the content of the modern file whenever
\* that file exists, an unparsable or too-old modern file giving an empty
\* store whatever the legacy file holds; only when the modern file is absent
\* is the legacy file read, each legacy entry becoming one entry with the
\* same source, source kind and skill path, an empty local content hash, and
\* a remote hash equal to the legacy hash when that is non-empty.
C20_LegacyFallback ==
    last.op = "read_local_lock" =>
       LET modern == pre.local_file
           legacy == pre.legacy_file
           r == last.result
       IN /\ (modern.kind = "json" /\ modern.version >= LOCAL_LOCK_VERSION) =>
                /\ r.ok
                /\ r.lock = [version |-> modern.version, skills |-> modern.skills]
          /\ (\/ modern.kind = "unparsable"
              \/ modern.kind = "json" /\ modern.version < LOCAL_LOCK_VERSION) =>
                /\ r.ok
                /\ r.lock = LocalSkillLockFile_empty
          /\ (modern.kind = "absent" /\ legacy.kind = "json") =>
                /\ r.ok
                /\ DOMAIN r.lock.skills = DOMAIN legacy.skills
                /\ \A k \in DOMAIN legacy.skills :
                      converted_as_stated(r.lock.skills[k], legacy.skills[k])

\* the legacy file read for want of a modern one: two entries, one with a
\* tree hash and one without
C20_Witness ==
    /\ last.op = "read_local_lock"
    /\ pre.local_file = AbsentFile
    /\ pre.legacy_file.kind = "json"
    /\ last.result.ok
    /\ \E k, o \in DOMAIN last.result.lock.skills :
          /\ last.result.lock.skills[k].remote_hash = Some("tree0")
          /\ pre.legacy_file.skills[o].skill_folder_hash = ""
          /\ last.result.lock.skills[o].computed_hash = ""

\* an unparsable modern file beside a legacy file that holds entries
C20_WitnessModernFirst ==
    /\ last.op = "read_local_lock"
    /\ pre.local_file = UnparsableFile
    /\ pre.legacy_file.kind = "json"
    /\ pre.legacy_file.skills # EmptyMap
    /\ last.result.ok
    /\ last.result.lock = LocalSkillLockFile_empty


(***************************************************************************)
(* Properties of the installer's outcomes (Spec)                           *)
(***************************************************************************)
\* the canonical directory and the agent's own directory of the last install
installed_canonical ==
    join(canonical_skills_dir(last.scope = "global",
                              unwrap_or_dot(last.project_path)),
         sanitize_name(last.skill_name))

installed_agent_dir ==
    join(agent_base(last.agent, last.scope = "global",
                    unwrap_or_dot(last.project_path)),
         sanitize_name(last.skill_name))

\* C21: a symlink-mode install in Global scope for a universal agent writes
\* only the canonical directory: nothing under the agent's own global skills
\* directory is created or changed, and the outcome reports the canonical
\* path as the installed path with symlink_failed = false.
C21_GlobalUniversalNoLink ==
    (/\ last.op = "install"
     /\ last.mode = "symlink"
     /\ last.scope = "global"
     /\ is_universal(last.agent)) =>
       /\ \A p \in AllPaths \ {installed_canonical} : fs[p] = pre.fs[p]
       /\ fs[installed_agent_dir] = pre.fs[installed_agent_dir]
       /\ last.result.success
       /\ fs[installed_canonical].kind = "dir"
       /\ last.result.path = installed_canonical
       /\ last.result.canonical_path = Some(installed_canonical)
       /\ ~last.result.symlink_failed

\* such an install made where the agent's global directory already holds a
\* copy of the skill, which stays as it was
C21_Witness ==
    /\ last.op = "install"
    /\ last.mode = "symlink"
    /\ last.scope = "global"
    /\ is_universal(last.agent)
    /\ last.result.success
    /\ pre.fs[installed_canonical].kind = "none"
    /\ fs[installed_canonical].kind = "dir"
    /\ pre.fs[installed_agent_dir].kind = "dir"
    /\ fs[installed_agent_dir] = pre.fs[installed_agent_dir]


\* the files copy_skill_files takes from the source as it was before the call
source_copy ==
    {rel \in resolve(pre.fs, last.skill_path, MaxLinkHops).files : ~skipped(rel)}

\* the last install was in Symlink mode and came to create the agent's link
link_attempted ==
    /\ last.op \in {"install", "install_again"}
    /\ last.mode = "symlink"
    /\ ~(last.scope = "global" /\ is_universal(last.agent))
    /\ pre.fs[installed_canonical].kind # "denied"

\* whether that link creation failed
link_creation_failed ==
    /\ installed_agent_dir # installed_canonical
    /\ ~last.link_ok \/ pre.fs[installed_agent_dir].kind = "denied"

\* C22: in a symlink-mode install, if link creation fails the agent directory
\* ends as an independent full copy of the skill files (with the exclusions of
\* the canonical copy), the canonical directory is populated, and the outcome
\* is success with symlink_failed = true and mode Copy; when link creation
\* succeeds symlink_failed = false and the mode is the requested one.
C22_SymlinkFallback ==
    link_attempted =>
       IF link_creation_failed
       THEN /\ fs[installed_agent_dir] = Dir(source_copy)
            /\ fs[installed_canonical] = Dir(source_copy)
            /\ last.result.success
            /\ last.result.symlink_failed
            /\ last.result.mode = "copy"
       ELSE /\ last.result.success
            /\ ~last.result.symlink_failed
            /\ last.result.mode = last.mode

\* the same for a skill installed from the fetched clone
C22_FallbackFromClone ==
    (link_attempted /\ last.skill_path = SourcePath) => C22_SymlinkFallback

\* a fallback made from the fetched clone: the agent directory is a copy
C22_WitnessFallback ==
    /\ link_attempted
    /\ link_creation_failed
    /\ last.skill_path = SourcePath
    /\ last.result.symlink_failed
    /\ fs[installed_agent_dir] = Dir(source_copy)
    /\ source_copy # {}


(***************************************************************************)
(* Further properties of discover_skills (SpecDiscover)                    *)
(***************************************************************************)
\* a manifest that parses and passes the internal filter
accepted_manifest(m, options) ==
    /\ m.kind = "skill"
    /\ \/ m.metadata # Some([internal |-> TRUE])
       \/ options.include_internal
       \/ options.env

\* a directory right below one of the conventional directories
in_conventional_dir(d) ==
    /\ d # <<>>
    /\ \E i \in 1..Len(get_priority_search_dirs) :
          SubSeq(d, 1, Len(d) - 1) = get_priority_search_dirs[i]

\* C23: with full_depth = false and a valid, accepted manifest directly in
\* the search root, discover_skills returns exactly that one skill whatever
\* other manifests the tree holds; when the root manifest is missing,
\* invalid or filtered out as internal, the search goes on with the
\* conventional directories.
C23_DirectManifestShortCircuit ==
    (dz.stage = "done" /\ ~dz.options.full_depth) =>
       IF accepted_manifest(dz.tree[<<>>], dz.options)
       THEN /\ dz.result.ok
            /\ Len(dz.result.skills) = 1
            /\ dz.result.skills[1].path = <<>>
            /\ dz.result.skills[1].name = dz.tree[<<>>].name
            /\ dz.result.visited = << <<>> >>
       ELSE /\ dz.result.ok
            /\ \A i \in 1..Len(dz.result.skills) : dz.result.skills[i].path # <<>>
            /\ \A d \in DirSet :
                  (in_conventional_dir(d) /\ dz.tree[d].kind # "none") =>
                     /\ \E v \in 1..Len(dz.result.visited) : dz.result.visited[v] = d
                     /\ accepted_manifest(dz.tree[d], dz.options) =>
                           \E i \in 1..Len(dz.result.skills) :
                              dz.result.skills[i].name = dz.tree[d].name

\* a root skill returned alone although a conventional directory and a
\* deeper one hold skills of other names
C23_Witness ==
    /\ dz.stage = "done"
    /\ ~dz.options.full_depth
    /\ accepted_manifest(dz.tree[<<>>], dz.options)
    /\ Len(dz.result.skills) = 1
    /\ accepted_manifest(dz.tree[<<"skills", "alpha">>], dz.options)
    /\ dz.tree[<<"skills", "alpha">>].name # dz.tree[<<>>].name
    /\ dz.tree[<<"docs", "examples", "gamma">>].kind = "skill"

\* a root manifest filtered out as internal, and the skill of a
\* conventional directory returned
C23_WitnessFiltered ==
    /\ dz.stage = "done"
    /\ ~dz.options.full_depth
    /\ dz.tree[<<>>].kind = "skill"
    /\ ~accepted_manifest(dz.tree[<<>>], dz.options)
    /\ Len(dz.result.skills) = 1
    /\ dz.result.skills[1].path = <<"skills", "alpha">>


\* the directory probed in a run of SpecProbe: the one below an agent's
\* project skills directory
probed_dir == dz.listing[4]

\* C24: for every agent of the registry, a valid skill right below the
\* agent's project skills directory is found by the scan of the
\* conventional directories, so it is returned also when full_depth = false
\* and another conventional directory has yielded a skill.
C24_EveryAgentDirProbed ==
    (/\ dz.stage = "done"
     /\ SubSeq(probed_dir, 1, Len(probed_dir) - 1) \in RegistrySkillsDirs
     /\ accepted_manifest(dz.tree[probed_dir], dz.options)) =>
       \E i \in 1..Len(dz.result.skills) : dz.result.skills[i].path = probed_dir

\* the same for the agent directories get_priority_search_dirs lists
C24_ListedDirsProbed ==
    (/\ dz.stage = "done"
     /\ in_conventional_dir(probed_dir)
     /\ accepted_manifest(dz.tree[probed_dir], dz.options)) =>
       \E i \in 1..Len(dz.result.skills) : dz.result.skills[i].path = probed_dir

\* a skill below .cursor/skills returned next to one of skills/ without a
\* full-depth search
C24_WitnessListed ==
    /\ dz.stage = "done"
    /\ ~dz.options.full_depth
    /\ probed_dir = <<".cursor", "skills", "mine">>
    /\ Len(dz.result.skills) = 2
    /\ dz.result.skills[1].path = ProbeGeneric
    /\ dz.result.skills[2].path = probed_dir


(***************************************************************************)
(* Properties of clone_repo_with_progress (SpecCloneFair)                  *)
(***************************************************************************)
clone_returned == pure.stage = "clone" /\ pure.pc = "returned"

final_phase(event) == event.phase \in {"done", "error"}

\* a Connecting event first, then exactly one Done or Error event, the last
\* one, Done exactly when the call returned Ok
events_as_stated ==
    /\ Len(pure.events) >= 2
    /\ pure.events[1].phase = "connecting"
    /\ \A k \in 1..Len(pure.events) :
          final_phase(pure.events[k]) <=> k = Len(pure.events)
    /\ pure.events[Len(pure.events)].phase = "done" <=> unwrap(pure.result).ok

\* a turn of the wait loop in which try_wait finds the child running after
\* the timeout kills it and makes the call return the timeout error
timeout_kills ==
    (/\ pure.pc = "wait"
     /\ pure.child = "running"
     /\ pure.elapsed > CLONE_TIMEOUT_SECS * 1000
     /\ pure'.child \notin {"exited_ok", "exited_failed"}
     /\ pure'.result # CloneErr("GitCloneFailed")) =>
       /\ pure'.pc = "returned"
       /\ pure'.child = "killed"
       /\ pure'.result = CloneErr("GitTimeout")

\* C25: clone_repo_with_progress always terminates; a fetch process still
\* running once the elapsed time exceeds the timeout is killed and the call
\* returns the timeout error, never a success; every call reports a
\* Connecting event first and on every return path exactly one final Done or
\* Error event, Done exactly when the call returns Ok.
C25_FetchTimeout ==
    /\ <>clone_returned
    /\ [][timeout_kills]_vars
    /\ [](clone_returned => events_as_stated)

\* every call returns
C25_Terminates == <>clone_returned

\* the timeout is enforced at the first turn of the loop after it
C25_TimeoutKills == [][timeout_kills]_vars

\* a killed child means the timeout error and no success; the wait never
\* lasts longer than the timeout and one turn
C25_NoSuccessAfterKill ==
    pure.stage = "clone" =>
       /\ pure.child = "killed" =>
             (pure.result = CloneErr("GitTimeout")
                /\ pure.events[Len(pure.events)].phase = "error")
       /\ pure.result = CloneOk => pure.child = "exited_ok"
       /\ pure.elapsed <= CLONE_TIMEOUT_SECS * 1000 + 2 * SleepMillis

\* every return after the temporary directory was made reports as stated
C25_EventsAfterTempDir ==
    (clone_returned /\ Len(pure.events) >= 2) => events_as_stated

\* a call that killed the child after the timeout
C25_WitnessKilled ==
    /\ clone_returned
    /\ pure.child = "killed"
    /\ pure.result = CloneErr("GitTimeout")
    /\ Len(pure.events) > CLONE_TIMEOUT_SECS

(***************************************************************************)
(* C26. Uncoordinated install/uninstall race: a symlink-mode install and a *)
(* full removal of the same skill in the same scope can interleave so that *)
(* both report success and the final state is one no sequential order of   *)
(* the two produces.  The two sequential outcomes are the skill removed    *)
(* (install, then removal) and the skill installed (removal, then          *)
(* install): runs in which the two calls do not overlap end in exactly     *)
(* these, and C26_Witness is a run that ends in neither.                   *)
(***************************************************************************)
both_returned == pure.stage = "race" /\ pure.ipc = "done" /\ pure.rpc = "done"
both_succeeded ==
    both_returned /\ pure.installed = Some(TRUE) /\ pure.removed = Some(TRUE)

race_lock_entry ==
    IF race_is_global THEN global_entry_of(lock_file, pure.skill_name)
    ELSE IF pure.project_path # None
    THEN local_entry_of(local_file, legacy_file, pure.skill_name)
    ELSE None

\* what the install copies from the source
race_content == Dir({rel \in SourceFiles : ~skipped(rel)})

\* the outcome of install followed by removal
skill_removed ==
    /\ fs[race_canonical_dir] = NoNode
    /\ fs[race_agent_dir] = NoNode
    /\ race_lock_entry = None

\* the outcome of removal followed by install
skill_installed ==
    /\ fs[race_canonical_dir] = race_content
    /\ fs[race_agent_dir] =
          IF race_is_global /\ is_universal(pure.agent) THEN NoNode
          ELSE IF race_agent_dir = race_canonical_dir THEN race_content
          ELSE IF pure.link_ok THEN Link(race_canonical_dir)
          ELSE race_content
    /\ (race_is_global \/ pure.project_path # None => race_lock_entry # None)

C26_SequentialOutcomes ==
    (both_returned /\ ~pure.overlapped) =>
       /\ both_succeeded
       /\ pure.first = "install" => skill_removed
       /\ pure.first = "remove" => skill_installed

\* both calls report success, and the state is neither sequential outcome:
\* the agent's link points at a canonical directory that is gone
C26_Witness ==
    /\ both_succeeded
    /\ pure.overlapped
    /\ ~skill_removed
    /\ ~skill_installed
    /\ fs[race_agent_dir] = Link(race_canonical_dir)
    /\ fs[race_canonical_dir] = NoNode

\* both calls report success, and a lock entry is left with nothing
\* installed
C26_WitnessLockOnly ==
    /\ both_succeeded
    /\ pure.overlapped
    /\ race_lock_entry # None
    /\ fs[race_canonical_dir] = NoNode
    /\ fs[race_agent_dir] = NoNode


(***************************************************************************)
(* C27. Installed-detection agrees with install: when                      *)
(* install_skill_for_agent returns success for (skill, agent, scope,       *)
(* project path), is_skill_installed with the same arguments returns true, *)
(* for every agent and both scopes, a Global install for a universal agent *)
(* included.                                                               *)
(***************************************************************************)
install_succeeded == last.op = "install" /\ last.result.success

detected_after_install ==
    is_skill_installed(fs, last.skill_name, last.agent, last.scope,
                       last.project_path)

C27_InstalledDetection == install_succeeded => detected_after_install

\* the installs of a universal agent in Global scope that leave through the
\* early return of install_with_symlink
global_universal_symlink ==
    /\ install_succeeded
    /\ last.scope = "global"
    /\ is_universal(last.agent)
    /\ last.mode = "symlink"

\* every other successful install is detected
C27_DetectedElsewhere ==
    (install_succeeded /\ ~global_universal_symlink) => detected_after_install

C27_WitnessElsewhere ==
    /\ install_succeeded
    /\ ~global_universal_symlink
    /\ last.scope = "global"
    /\ detected_after_install


(***************************************************************************)
(* C28. removed_paths is truthful: every path listed in the removed_paths  *)
(* of a remove_skill result existed (as a directory, file or link)         *)
(* immediately before the call and does not exist after it; an agent path  *)
(* that did not exist before the call is not listed.                       *)
(***************************************************************************)
removal_returned == last.op = "remove" /\ last.result.success

C28_RemovedPathsTruthful ==
    removal_returned =>
       \A p \in last.result.removed_paths :
          /\ symlink_metadata_ok(pre.fs, p)
          /\ ~symlink_metadata_ok(fs, p)

\* the half of the statement about the state after the call: no listed path
\* exists any more
C28_ListedPathsGone ==
    removal_returned =>
       \A p \in last.result.removed_paths : ~symlink_metadata_ok(fs, p)

\* a removal that lists a path it has removed
C28_WitnessRemoved ==
    /\ removal_returned
    /\ \E p \in last.result.removed_paths :
          symlink_metadata_ok(pre.fs, p) /\ ~symlink_metadata_ok(fs, p)


(***************************************************************************)
(* C29. Removal is isolated per skill: for two distinct skill names A and  *)
(* B installed in the same scope, a full removal of A changes neither the  *)
(* installed files (canonical directory, agent links and copies) nor the   *)
(* lock entry of B, also when A and B differ only in characters            *)
(* sanitize_name rewrites.                                                 *)
(***************************************************************************)
\* the canonical directory and the agents' paths of a skill in the scope of
\* the call in `last`
skill_paths(skill_name) ==
    {join(canonical_skills_dir(last.scope = "global",
                               unwrap_or_dot(last.project_path)),
          sanitize_name(skill_name))}
    \cup {join(agent_base(agent, last.scope = "global",
                          unwrap_or_dot(last.project_path)),
               sanitize_name(skill_name)) : agent \in AgentType}

\* the lock entry of a skill in the scope of the call in `last`
scope_entry(snapshot, skill_name) ==
    IF last.scope = "global"
    THEN global_entry_of(snapshot.lock_file, skill_name)
    ELSE local_entry_of(snapshot.local_file, snapshot.legacy_file, skill_name)

\* the skill had files and a lock entry in the scope before the call
installed_before(skill_name) ==
    /\ scope_entry(pre, skill_name) # None
    /\ \E p \in skill_paths(skill_name) : symlink_metadata_ok(pre.fs, p)

untouched(skill_name) ==
    /\ \A p \in skill_paths(skill_name) : fs[p] = pre.fs[p]
    /\ scope_entry(Snapshot, skill_name) = scope_entry(pre, skill_name)

full_removal_of(skill_name) ==
    /\ last.op = "remove"
    /\ last.full_removal
    /\ last.skill_name = skill_name
    /\ installed_before(skill_name)

C29_RemovalIsolated ==
    \A a \in PairNames, b \in PairNames :
       (a # b /\ full_removal_of(a) /\ installed_before(b)) => untouched(b)

\* isolation between skills that are installed under different names
C29_IsolatedWhenDirectoriesDiffer ==
    \A a \in PairNames, b \in PairNames :
       (/\ sanitize_name(a) # sanitize_name(b)
        /\ full_removal_of(a)
        /\ installed_before(b)) => untouched(b)

C29_WitnessDirectoriesDiffer ==
    \E a \in PairNames, b \in PairNames :
       /\ sanitize_name(a) # sanitize_name(b)
       /\ full_removal_of(a)
       /\ installed_before(b)
       /\ untouched(b)
       /\ ~symlink_metadata_ok(fs,
              join(canonical_skills_dir(last.scope = "global",
                                        unwrap_or_dot(last.project_path)),
                   sanitize_name(a)))


(***************************************************************************)
(* C30. An unknown agent id aborts an install before any mutation: when    *)
(* the agent list of an install_skills request contains an id that is not  *)
(* in the registry, the call fails with an invalid-agent error and no      *)
(* canonical directory, agent directory or lock file was created or        *)
(* changed, wherever the unknown id stands in the list.  The request is    *)
(* one that gets as far as installing: its source parses, its search path  *)
(* exists and it selects a skill.                                          *)
(***************************************************************************)
has_unknown_agent(cmd) ==
    \E k \in 1..Len(cmd.params.agents) : cmd.params.agents[k] \notin AgentType

reaches_install(cmd) ==
    /\ reaches_discovery(cmd)
    /\ cmd.env.search_exists
    /\ selected_names(cmd) # {}

unknown_agent_request ==
    /\ last.op = "install_skills"
    /\ has_unknown_agent(last.cmd)
    /\ reaches_install(last.cmd)

C30_UnknownAgentAborts ==
    unknown_agent_request =>
       /\ last.result = AppError("InvalidAgent")
       /\ nothing_mutated

\* the error itself is returned wherever the id stands, and nothing is
\* mutated when the id stands first
C30_UnknownAgentFirst ==
    unknown_agent_request =>
       /\ last.result = AppError("InvalidAgent")
       /\ last.cmd.params.agents[1] \notin AgentType => nothing_mutated

C30_WitnessFirst ==
    /\ unknown_agent_request
    /\ last.cmd.params.agents[1] \notin AgentType
    /\ last.result = AppError("InvalidAgent")
    /\ nothing_mutated
    /\ \E p \in AllPaths : p # SourcePath /\ pre.fs[p].kind = "dir"

====
